---------------------------- MODULE Spec2Model ----------------------------
(***************************************************************************)
(* Model of the query-result cache of python-decorators-0x01/4-cache_query *)
(* (cache_query, cache_query_advanced, the module-level query_cache they   *)
(* share, and the with_db_connection wrapper they are stacked under), of  *)
(* RateLimitingMiddleware of Django-Middleware-0x03, of retry_on_failure,  *)
(* with_db_connection and transactional of python-decorators-0x01, of the  *)
(* DatabaseConnection context managers of python-context-async-            *)
(* perations-0x02, and of Message.save and its signal handlers of          *)
(* Django-signals_orm-0x04.                                                *)
(*                                                                         *)
(* Strings are sequences of one-character strings, so that whitespace      *)
(* normalisation, json.dumps and the concatenation that builds a cache key *)
(* are computed, character by character, as the Python code computes them. *)
(* A Python dict is a sequence in insertion order (dicts keep it, and the  *)
(* eviction's stable sort depends on it).  time.time() is the integer      *)
(* variable now.  md5 and sha256 are modelled as collision-free: a digest  *)
(* is the pair of the hash's name and the hashed text.                     *)
(***************************************************************************)
EXTENDS Integers, Sequences, FiniteSets, TLC

VARIABLES
    query_cache,   \* the module-level dict: a sequence of entries, insertion order
    cache_stats,   \* cache_query_advanced's closure dict of counters
    cfg,           \* the decorators' arguments, fixed when the functions are decorated
    now,           \* the value time.time() returns
    ncalls,        \* how many calls of each decorated function were made so far
    last,          \* the last call: what was passed, and what the caller observed
    hist,          \* the query texts of the calls so far (kept by CallKeys and CallCap),
                   \* in SpecShared the names of the functions called so far
    threads,       \* SpecThreads: where each thread is in the wrapper, and its locals
    django_cache,  \* django.core.cache.cache: key -> value and time of expiry
    response,      \* the response to the last request RateLimitingMiddleware handled
    windows,       \* per rate-limit key, what a client that counts its requests saw
    nrequests,     \* how many requests the middleware has handled
    retry,         \* a call of a function wrapped by retry_on_failure: the decorator's
                   \* arguments, the wrapper's locals, the invocations and the sleeps
    runs,          \* the calls made through with_db_connection / transactional and the
                   \* with-blocks of DatabaseConnection that are over: what was called
                   \* on the connection, in order, and what the caller got
    orm            \* Django-signals_orm-0x04: the tables of Message, Notification and
                   \* MessageHistory, the Message objects held in memory, and the
                   \* saves made so far

\* the variables of the rate limiting middleware
rate_vars == <<django_cache, response, windows, nrequests>>

\* the variables of the other decorators
ext_vars == <<retry, runs, orm>>

vars == <<query_cache, cache_stats, cfg, now, ncalls, last, hist, threads, rate_vars,
          ext_vars>>

-----------------------------------------------------------------------------
(* Bounds of the model *)

\* calls of decorated functions in one behaviour of Spec and of SpecKeys
MaxCalls == 2
\* calls of decorated functions in one behaviour of SpecCapacity
MaxCapCalls == 6
\* largest clock value
MaxClock == 2
\* max_size is one of 1..MaxSizeSmall in SpecCapacity
MaxSizeSmall == 5

(* Program constants *)

\* cache_query(max_age_seconds=300, ...) and cache_query_advanced's default
DefaultMaxAge == 300
\* cache_query(..., max_size=1000, ...) and cache_query_advanced's default
DefaultMaxSize == 1000
\* the share of max_size evicted: max_size // 4
EvictDivisor == 4

-----------------------------------------------------------------------------
(* Python values: every value is a record of the same shape.               *)
(*   t  : the type ("none", "str", "dict", "tuple", "conn")                *)
(*   s  : the characters of a str                                          *)
(*   kv : the items of a dict as <<key, int>> pairs in insertion order, or *)
(*        the elements of a tuple as <<"", int>> pairs; an element that is *)
(*        an object json cannot serialize (a set, say) is <<"object", 0>>  *)

None == [t |-> "none", s |-> <<>>, kv |-> <<>>]
Str(chars) == [t |-> "str", s |-> chars, kv |-> <<>>]
Dict(items) == [t |-> "dict", s |-> <<>>, kv |-> items]
Tuple(items) == [t |-> "tuple", s |-> <<>>, kv |-> items]
Conn == [t |-> "conn", s |-> <<>>, kv |-> <<>>]

\* a mutant of Truthy: only None is false (`if query is None`)
TruthyNotNone(v) == v.t # "none"

\* Python truthiness: `if not query`, `if ... and params`
Truthy(v) ==
    CASE v.t = "none" -> FALSE
      [] v.t = "str" -> v.s # <<>>
      [] v.t \in {"dict", "tuple"} -> v.kv # <<>>
      [] OTHER -> TRUE

\* isinstance(x, str)
IsStr(v) == v.t = "str"

\* isinstance(x, (list, tuple, dict))
IsParams(v) == v.t \in {"dict", "tuple"}

-----------------------------------------------------------------------------
(* str.split() and ' '.join(...) *)

Whitespace == {" ", "\n", "\t"}

RECURSIVE SplitAcc(_, _, _)
SplitAcc(s, cur, acc) ==
    IF s = <<>>
    THEN IF cur = <<>> THEN acc ELSE Append(acc, cur)
    ELSE IF Head(s) \in Whitespace
         THEN SplitAcc(Tail(s), <<>>, IF cur = <<>> THEN acc ELSE Append(acc, cur))
         ELSE SplitAcc(Tail(s), Append(cur, Head(s)), acc)

\* query.split(): the maximal runs of non-whitespace characters
Split(s) == SplitAcc(s, <<>>, <<>>)

RECURSIVE Join(_, _)
Join(sep, words) ==
    IF words = <<>> THEN <<>>
    ELSE IF Len(words) = 1 THEN words[1]
    ELSE words[1] \o sep \o Join(sep, Tail(words))

\* a mutant of Normalize: trims the ends but keeps inner runs of whitespace
NormalizeTrimOnly(query) ==
    LET n == Len(query)
        first == IF \E i \in 1..n : query[i] \notin Whitespace
                 THEN CHOOSE i \in 1..n : query[i] \notin Whitespace
                          /\ \A j \in 1..(i-1) : query[j] \in Whitespace
                 ELSE n + 1
        lst == IF first > n THEN n
               ELSE CHOOSE i \in 1..n : query[i] \notin Whitespace
                          /\ \A j \in (i+1)..n : query[j] \in Whitespace
    IN  IF first > n THEN <<>> ELSE SubSeq(query, first, lst)

\* ' '.join(query.split())
Normalize(query) == Join(<<" ">>, Split(query))

-----------------------------------------------------------------------------
(* json.dumps(params, sort_keys=True) *)

Digits == <<"0", "1", "2", "3", "4", "5", "6", "7", "8", "9">>

\* the characters that may be dict keys, in the order Python sorts them
Letters == <<"a", "b", "c">>

Rank(ch) == CHOOSE i \in 1..Len(Letters) : Letters[i] = ch

RECURSIVE IntStr(_)
IntStr(n) ==
    IF n < 10 THEN <<Digits[n + 1]>>
    ELSE IntStr(n \div 10) \o <<Digits[(n % 10) + 1]>>

\* the items of a dict sorted by key (the keys of a dict are distinct)
SortItems(items) ==
    LET n == Len(items)
        pos(i) == 1 + Cardinality({j \in 1..n : Rank(items[j][1]) < Rank(items[i][1])})
    IN  [r \in 1..n |-> items[CHOOSE i \in 1..n : pos(i) = r]]

\* one item of a dict: "k": v
JsonItem(item) == <<"\"", item[1], "\"", ":", " ">> \o IntStr(item[2])

\* json.dumps(params) returns: no element makes it raise TypeError
JsonSerializable(params) ==
    \A i \in 1..Len(params.kv) : params.kv[i][1] # "object"

\* json.dumps of a dict or of a tuple (a tuple is written as a JSON array)
JsonDumps(params) ==
    IF params.t = "dict"
    THEN LET sorted == SortItems(params.kv)
         IN  <<"{">> \o Join(<<",", " ">>, [i \in 1..Len(sorted) |-> JsonItem(sorted[i])])
                   \o <<"}">>
    ELSE <<"[">> \o Join(<<",", " ">>, [i \in 1..Len(params.kv) |-> IntStr(params.kv[i][2])])
               \o <<"]">>

-----------------------------------------------------------------------------
(* Cache keys *)

\* hashlib.md5(text.encode('utf-8')).hexdigest()
Md5(text) == [h |-> "md5", d |-> text]

\* hashlib.sha256(text.encode('utf-8')).hexdigest()
Sha256(text) == [h |-> "sha256", d |-> text]

\* cache_query: the query looked for in kwargs, then as first positional argument
ExtractQuery(args, kwargs) ==
    IF "query" \in DOMAIN kwargs THEN kwargs["query"]
    ELSE IF Len(args) > 0 /\ IsStr(args[1]) THEN args[1]
    ELSE None

\* cache_query_advanced: params is taken only from the second positional
\* argument, and only when the query was the first positional argument
ExtractParams(args, kwargs) ==
    IF "query" \in DOMAIN kwargs THEN None
    ELSE IF Len(args) > 0 /\ IsStr(args[1])
         THEN IF Len(args) > 1 /\ IsParams(args[2]) THEN args[2] ELSE None
    ELSE None

\* cache_query: normalized_query
NormalizedQuery(query, ignore_whitespace) ==
    IF ignore_whitespace THEN Normalize(query.s) ELSE query.s

\* cache_query: cache_key
SimpleKey(query, ignore_whitespace) == Md5(NormalizedQuery(query, ignore_whitespace))

\* cache_query_advanced: key_data
KeyData(query, params, include_params) ==
    IF include_params /\ Truthy(params)
    THEN Normalize(query.s) \o JsonDumps(params)
    ELSE Normalize(query.s)

\* cache_query_advanced: cache_key
AdvancedKey(query, params, include_params) == Sha256(KeyData(query, params, include_params))

-----------------------------------------------------------------------------
(* The dict query_cache: a sequence of entries in insertion order *)

NoTime == 0 - 1

Keys(cache) == {cache[i].key : i \in 1..Len(cache)}

\* key in query_cache
Has(cache, key) == key \in Keys(cache)

\* query_cache[key]
Get(cache, key) == cache[CHOOSE i \in 1..Len(cache) : cache[i].key = key]

RECURSIVE Without(_, _)
Without(cache, keys) ==
    IF cache = <<>> THEN <<>>
    ELSE IF Head(cache).key \in keys THEN Without(Tail(cache), keys)
    ELSE <<Head(cache)>> \o Without(Tail(cache), keys)

\* del query_cache[key]
Del(cache, key) == Without(cache, {key})

\* a mutant of Put: the entry is added whether or not the key is present
PutAppended(cache, entry) == Append(cache, entry)

\* query_cache[key] = entry: a present key keeps its place, a new one goes last
Put(cache, entry) ==
    IF Has(cache, entry.key)
    THEN [i \in 1..Len(cache) |-> IF cache[i].key = entry.key THEN entry ELSE cache[i]]
    ELSE Append(cache, entry)

\* sorted(query_cache.keys(), key=lambda k: query_cache[k]['timestamp']):
\* a stable sort, so equal timestamps stay in insertion order
SortedKeys(cache) ==
    LET n == Len(cache)
        pos(i) == 1 + Cardinality({j \in 1..n :
                        \/ cache[j].timestamp < cache[i].timestamp
                        \/ cache[j].timestamp = cache[i].timestamp /\ j < i})
    IN  [r \in 1..n |-> cache[CHOOSE i \in 1..n : pos(i) = r].key]

\* seq[:n]: the first n elements, and for a negative n all but the last -n
Prefix(seq, n) ==
    LET stop == IF n < 0 THEN Len(seq) + n ELSE n
    IN  SubSeq(seq, 1, IF stop < 0 THEN 0 ELSE IF stop < Len(seq) THEN stop ELSE Len(seq))

\* max_size // 4, rounded towards minus infinity
EvictCount(max_size) == max_size \div EvictDivisor

\* a mutant of OldestKeys: the newest entries are chosen
NewestKeys(cache, max_size) ==
    LET sorted == SortedKeys(cache)
        n == Len(sorted)
        k == IF EvictCount(max_size) < n THEN EvictCount(max_size) ELSE n
    IN  {sorted[i] : i \in (n - k + 1)..n}

\* oldest_keys / lru_keys
OldestKeys(cache, max_size) ==
    LET chosen == Prefix(SortedKeys(cache), EvictCount(max_size))
    IN  {chosen[i] : i \in 1..Len(chosen)}

\* "Clean up cache if it exceeds max size" / "Manage cache size"
Evict(cache, max_size) ==
    IF Len(cache) >= max_size THEN Without(cache, OldestKeys(cache, max_size)) ELSE cache

\* a mutant of IsFresh: the boundary is exclusive
IsFreshStrict(current_time, timestamp, max_age_seconds) ==
    current_time - timestamp < max_age_seconds

\* a mutant of IsFresh: an entry is never stale
IsFreshAlways(current_time, timestamp, max_age_seconds) == TRUE

\* current_time - cached_data['timestamp'] <= max_age_seconds
IsFresh(current_time, timestamp, max_age_seconds) ==
    current_time - timestamp <= max_age_seconds

-----------------------------------------------------------------------------
(* The decorated functions and their calls *)

\* fetch_users_with_cache is wrapped by cache_query, fetch_users_with_params
\* by cache_query_advanced
Simple == "fetch_users_with_cache"
Advanced == "fetch_users_with_params"
Wrappers == {Simple, Advanced}

\* what the wrapped function does when it is invoked: it raises, or it
\* returns one of two results (what the database holds may change)
Raises == "raise"
Results == {"rows1", "rows2"}
Outcomes == {Raises} \cup Results

\* how long the wrapped function runs
Durations == {0, 1}

NoKey == [h |-> "none", d |-> <<>>]
NoKwargs == [n \in {} |-> None]
NoCall == [w |-> "none", args |-> <<>>, kwargs |-> NoKwargs, db |-> FALSE,
           key |-> NoKey, outcome |-> "none", raised |-> FALSE, ret |-> "none", at |-> 0]

ZeroStats == [hits |-> 0, misses |-> 0, expired |-> 0, size |-> 0]

\* with_db_connection: the cached wrapper is called with the connection first
WithDbConnection(args) == <<Conn>> \o args

\* the entry cache_query stores
SimpleEntry(key, result, current_time, query, max_age_seconds) ==
    [key |-> key, result |-> result, timestamp |-> current_time, query |-> query,
     expires_at |-> current_time + max_age_seconds, params |-> None]

\* the entry cache_query_advanced stores
AdvancedEntry(key, result, current_time, query, params, include_params) ==
    [key |-> key, result |-> result, timestamp |-> current_time, query |-> query,
     expires_at |-> NoTime, params |-> IF include_params THEN params ELSE None]

\* a mutant of Stored: a failure of the wrapped function is cached too
StoredAlways(cache, out, entry, max_size) == Put(Evict(cache, max_size), entry)

\* the store after the wrapped function ran on a miss: an exception leaves the
\* wrapper before anything is stored
Stored(cache, out, entry, max_size) ==
    IF out = Raises THEN cache ELSE Put(Evict(cache, max_size), entry)

\* a mutant of AfterHit: a hit refreshes the entry's timestamp
AfterHitRefreshed(cache, key, current_time) ==
    [i \in 1..Len(cache) |->
        IF cache[i].key = key THEN [cache[i] EXCEPT !.timestamp = current_time]
        ELSE cache[i]]

\* the store after a hit: the entry is read and returned, nothing is written
AfterHit(cache, key, current_time) == cache

\* the entry's timestamp is current_time, read before the lookup and before
\* the wrapped function runs for d seconds
Timestamp(current_time, d) == current_time

Observed(w, c, key, outcome, raised, ret, at) ==
    [w |-> w, args |-> c.args, kwargs |-> c.kwargs, db |-> c.db, key |-> key,
     outcome |-> outcome, raised |-> raised, ret |-> ret, at |-> at]

\* the wrapped function is called without caching
Bypass(w, c, out, d) ==
    /\ now' = now + d
    /\ last' = Observed(w, c, NoKey, "bypass", out = Raises, out, now)
    /\ UNCHANGED <<query_cache, cache_stats>>

\* cache_query's wrapper, called with args and kwargs
CacheQuery(w, c, args, kwargs, out, d) ==
    LET query == ExtractQuery(args, kwargs)
        normalized_query == NormalizedQuery(query, cfg[w].ignore_whitespace)
        cache_key == SimpleKey(query, cfg[w].ignore_whitespace)
        current_time == now
        present == Has(query_cache, cache_key)
        cached_data == Get(query_cache, cache_key)
        entry == SimpleEntry(cache_key, out, Timestamp(current_time, d),
                             normalized_query, cfg[w].max_age_seconds)
    IN  IF ~Truthy(query) THEN Bypass(w, c, out, d)
        ELSE IF present /\ IsFresh(current_time, cached_data.timestamp,
                                   cfg[w].max_age_seconds)
        THEN /\ query_cache' = AfterHit(query_cache, cache_key, current_time)
             /\ last' = Observed(w, c, cache_key, "hit", FALSE, cached_data.result, now)
             /\ UNCHANGED <<cache_stats, now>>
        ELSE /\ query_cache' = Stored(IF present THEN Del(query_cache, cache_key)
                                      ELSE query_cache,
                                      out, entry, cfg[w].max_size)
             /\ now' = now + d
             /\ last' = Observed(w, c, cache_key, IF present THEN "expired" ELSE "miss",
                                 out = Raises, out, now)
             /\ UNCHANGED cache_stats

\* a mutant of MissStats: an expired entry is not counted as a miss as well
MissStatsExpiredOnly(stats, present) ==
    IF present THEN [stats EXCEPT !.expired = @ + 1]
    ELSE [stats EXCEPT !.misses = @ + 1]

\* the counters after a lookup that was not a hit
MissStats(stats, present) ==
    LET s1 == IF present THEN [stats EXCEPT !.expired = @ + 1] ELSE stats
    IN  [s1 EXCEPT !.misses = @ + 1]

\* cache_query_advanced's wrapper, called with args and kwargs
CacheQueryAdvanced(w, c, args, kwargs, out, d) ==
    LET query == ExtractQuery(args, kwargs)
        params == ExtractParams(args, kwargs)
        normalized_query == Normalize(query.s)
        cache_key == AdvancedKey(query, params, cfg[w].include_params)
        current_time == now
        present == Has(query_cache, cache_key)
        cached_data == Get(query_cache, cache_key)
        entry == AdvancedEntry(cache_key, out, Timestamp(current_time, d),
                               normalized_query, params, cfg[w].include_params)
        stored == Stored(IF present THEN Del(query_cache, cache_key) ELSE query_cache,
                         out, entry, cfg[w].max_size)
        counted == MissStats(cache_stats[w], present)
    IN  IF ~Truthy(query) THEN Bypass(w, c, out, d)
        ELSE IF cfg[w].include_params /\ Truthy(params) /\ ~JsonSerializable(params)
        THEN /\ last' = Observed(w, c, NoKey, "error", TRUE, "TypeError", now)
             /\ UNCHANGED <<query_cache, cache_stats, now>>
        ELSE IF present /\ IsFresh(current_time, cached_data.timestamp,
                                   cfg[w].max_age_seconds)
        THEN /\ cache_stats' = [cache_stats EXCEPT ![w].hits = @ + 1]
             /\ query_cache' = AfterHit(query_cache, cache_key, current_time)
             /\ last' = Observed(w, c, cache_key, "hit", FALSE, cached_data.result, now)
             /\ UNCHANGED now
        ELSE /\ query_cache' = stored
             /\ cache_stats' = [cache_stats EXCEPT ![w] =
                    IF out = Raises THEN counted
                    ELSE [counted EXCEPT !.size = Len(stored)]]
             /\ now' = now + d
             /\ last' = Observed(w, c, cache_key, IF present THEN "expired" ELSE "miss",
                                 out = Raises, out, now)

\* one call of a decorated function: directly, or through with_db_connection
Call(w, c, out, d) ==
    LET args == IF c.db THEN WithDbConnection(c.args) ELSE c.args
    IN  /\ now + d <= MaxClock
        /\ ncalls' = [ncalls EXCEPT ![w] = @ + 1]
        /\ IF w = Simple
           THEN CacheQuery(w, c, args, c.kwargs, out, d)
           ELSE CacheQueryAdvanced(w, c, args, c.kwargs, out, d)
        /\ UNCHANGED <<cfg, threads, rate_vars, ext_vars>>

TotalCalls == ncalls[Simple] + ncalls[Advanced]

\* a mutant of Cleared: clear_cache resets the counters only
ClearedNothing(cache) == cache

\* query_cache.clear()
Cleared(cache) == <<>>

\* wrapper.clear_cache()
ClearCache ==
    /\ query_cache' = Cleared(query_cache)
    /\ cache_stats' = [cache_stats EXCEPT ![Advanced] = ZeroStats]
    /\ last' = [NoCall EXCEPT !.w = Advanced, !.outcome = "clear", !.at = now]
    /\ UNCHANGED <<cfg, now, ncalls, hist, threads, rate_vars, ext_vars>>

\* wrapper.get_cache_stats(): a copy of the counters
GetCacheStats(w) == cache_stats[w]

\* time passes between calls
Tick ==
    /\ now < MaxClock
    /\ now' = now + 1
    /\ UNCHANGED <<query_cache, cache_stats, cfg, ncalls, last, hist, threads, rate_vars, ext_vars>>

-----------------------------------------------------------------------------
(* The ways a caller passes the query and the parameters *)

Kw(q) == [args |-> <<>>, kwargs |-> [query |-> Str(q)], db |-> FALSE]
KwP(q, p) == [args |-> <<>>, kwargs |-> [query |-> Str(q), params |-> p], db |-> FALSE]
Pos(q) == [args |-> <<Str(q)>>, kwargs |-> NoKwargs, db |-> FALSE]
PosP(q, p) == [args |-> <<Str(q), p>>, kwargs |-> NoKwargs, db |-> FALSE]
ViaDb(c) == [c EXCEPT !.db = TRUE]

\* the query and the parameters the caller passed, however they were passed
CallerQuery(c) ==
    IF "query" \in DOMAIN c.kwargs THEN c.kwargs["query"]
    ELSE IF Len(c.args) > 0 THEN c.args[1] ELSE None
CallerParams(c) ==
    IF "params" \in DOMAIN c.kwargs THEN c.kwargs["params"]
    ELSE IF Len(c.args) > 1 THEN c.args[2] ELSE None

\* query texts
QA == <<"a">>
QB == <<"b">>
QAB == <<"a", " ", "b">>
QABLead == <<" ", "a", " ", "b">>
QABTrail == <<"a", " ", "b", " ">>
QABTwice == <<"a", " ", " ", "b">>
QABLine == <<"a", "\n", "b">>
QBlank == <<" ">>
QEmpty == <<>>

\* parameters
P1 == Dict(<< <<"a", 1>> >>)
P2 == Dict(<< <<"a", 2>> >>)
\* a tuple that holds an object json cannot serialize
PObject == Tuple(<< <<"object", 0>> >>)

\* the text QAB followed by the characters json.dumps writes for P1
QABJson == QAB \o <<"{", "\"", "a", "\"", ":", " ", "1", "}">>

\* the source's own decorations (fetch_users_with_cache, fetch_users_with_params)
SourceMaxAgeSimple == 60
SourceMaxSizeSimple == 100
SourceMaxAgeAdvanced == 120

Config(age, size, ignore_whitespace, include_params) ==
    [max_age_seconds |-> age, max_size |-> size,
     ignore_whitespace |-> ignore_whitespace, include_params |-> include_params]

\* the threads that call the decorated functions at the same time
Threads == {"t1", "t2"}

\* a thread that has not entered a wrapper
Idle == [pc |-> "idle", w |-> "none", cache_key |-> NoKey, query |-> <<>>,
         current_time |-> 0, found |-> "none", counter |-> 0, oldest_keys |-> <<>>,
         invoked |-> FALSE, result |-> "none", error |-> "none"]

\* no request was made: the cache of the rate limiter is empty
InitRate ==
    /\ django_cache = [k \in {} |-> 0]
    /\ response = [status |-> 0, handled |-> FALSE]
    /\ windows = [k \in {} |-> 0]
    /\ nrequests = 0

\* retry_on_failure(retries=3, delay=2, backoff_factor=1.0, exceptions=(Exception,))
DefaultRetries == 3
DefaultDelay == 2
DefaultBackoffFactor == 1

\* no exception, and no result: None
NoException == [kind |-> "none", type |-> "None", attempt |-> 0]

\* a function wrapped by retry_on_failure(retries, delay, backoff_factor,
\* exceptions) that has not been called
Decorated(retries, delay, backoff_factor, exceptions) ==
    [pc |-> "idle", retries |-> retries, delay |-> delay,
     backoff_factor |-> backoff_factor, exceptions |-> exceptions,
     attempt |-> 0, current_delay |-> 0, last_exception |-> NoException,
     invoked |-> <<>>, slept |-> <<>>, outcome |-> NoException]

\* empty tables, and no Message object in memory
EmptyDatabase ==
    [messages |-> <<>>, notifications |-> <<>>, history |-> <<>>,
     instances |-> <<>>, saved |-> <<>>]

InitExt ==
    /\ retry = Decorated(DefaultRetries, DefaultDelay, DefaultBackoffFactor, {"Exception"})
    /\ runs = <<>>
    /\ orm = EmptyDatabase

InitStore ==
    /\ InitRate
    /\ InitExt
    /\ threads = [t \in Threads |-> Idle]
    /\ query_cache = <<>>
    /\ cache_stats = [w \in {Advanced} |-> ZeroStats]
    /\ now = 0
    /\ ncalls = [w \in Wrappers |-> 0]
    /\ last = NoCall
    /\ hist = <<>>

-----------------------------------------------------------------------------
(* Spec: expiry, hits and misses.  Small maximum ages, the source's sizes. *)

SmallAges == {0, 1}

TtlCalls == {Kw(QA), Kw(QB), PosP(QA, P1)}

Init ==
    /\ InitStore
    /\ \E a1 \in SmallAges, a2 \in SmallAges :
          cfg = [w \in Wrappers |->
                    IF w = Simple THEN Config(a1, SourceMaxSizeSimple, TRUE, TRUE)
                    ELSE Config(a2, DefaultMaxSize, TRUE, TRUE)]

CallTtl ==
    /\ TotalCalls < MaxCalls
    /\ \E w \in Wrappers, c \in TtlCalls, out \in Outcomes, d \in Durations :
          Call(w, c, out, d)
    /\ UNCHANGED hist

Next == CallTtl \/ Tick \/ ClearCache

Spec == Init /\ [][Next]_vars

-----------------------------------------------------------------------------
(* SpecKeys: how the cache key is derived from what the caller passes.     *)
(* The source's maximum ages: nothing expires.                             *)

KeyTexts == {QAB, QABLead, QABTrail, QABTwice, QABLine, QBlank, QEmpty}

KeyCallsDirect ==
    {Kw(q) : q \in KeyTexts} \cup {Pos(q) : q \in KeyTexts}
    \cup {KwP(QAB, p) : p \in {P1, P2}} \cup {PosP(QAB, p) : p \in {P1, P2}}

\* the calls made through with_db_connection
KeyCallsViaDb ==
    {ViaDb(c) : c \in {Kw(QAB), Pos(QAB), Kw(QEmpty)}
                      \cup {KwP(QAB, p) : p \in {P1, P2}}
                      \cup {PosP(QAB, p) : p \in {P1, P2}}}

KeyCalls == KeyCallsDirect \cup KeyCallsViaDb

InitKeys ==
    /\ InitStore
    /\ \E iw \in BOOLEAN, ip \in BOOLEAN :
          cfg = [w \in Wrappers |->
                    IF w = Simple
                    THEN Config(SourceMaxAgeSimple, SourceMaxSizeSimple, iw, TRUE)
                    ELSE Config(SourceMaxAgeAdvanced, DefaultMaxSize, TRUE, ip)]

CallKeys ==
    /\ TotalCalls < MaxCalls
    /\ \E w \in Wrappers, c \in KeyCalls, out \in Results :
          /\ Call(w, c, out, 0)
          /\ hist' = Append(hist, CallerQuery(c).s)

NextKeys == CallKeys

SpecKeys == InitKeys /\ [][NextKeys]_vars

-----------------------------------------------------------------------------
(* SpecCapacity: one decorated function is the only user of the store and  *)
(* is called with queries q1, q2, ...; max_size is small.  Queries are     *)
(* numbered in the order of their first use (any other naming of distinct  *)
(* queries is a renaming of one of these behaviours).                      *)

CapText(i) == <<"q">> \o IntStr(i)

Used == Cardinality({hist[i] : i \in 1..Len(hist)})

InitCapacity ==
    /\ InitStore
    /\ \E n \in 1..MaxSizeSmall :
          cfg = [w \in Wrappers |-> Config(DefaultMaxAge, n, TRUE, TRUE)]

CallCap ==
    /\ TotalCalls < MaxCapCalls
    /\ \E w \in Wrappers, i \in 1..(Used + 1) :
          /\ \A v \in Wrappers \ {w} : ncalls[v] = 0
          /\ Call(w, Kw(CapText(i)), "rows1", 0)
          /\ hist' = Append(hist, CapText(i))

NextCapacity == CallCap \/ Tick

SpecCapacity == InitCapacity /\ [][NextCapacity]_vars

-----------------------------------------------------------------------------
(* SpecParams: the advanced wrapper called with a query and parameters,    *)
(* among them parameters json.dumps raises on, and with a query text that  *)
(* ends in the characters of serialized parameters.                        *)

ParamCalls ==
    {Pos(QAB), Pos(QABTwice), Pos(QABJson),
     PosP(QAB, P1), PosP(QAB, P2), PosP(QABTwice, P1),
     PosP(QAB, PObject), KwP(QAB, PObject), KwP(QAB, P1)}

InitParams ==
    /\ InitStore
    /\ \E ip \in BOOLEAN :
          cfg = [w \in Wrappers |->
                    Config(SourceMaxAgeAdvanced, DefaultMaxSize, TRUE, ip)]

CallParams ==
    /\ TotalCalls < MaxCalls
    /\ \E c \in ParamCalls, out \in Results :
          /\ Call(Advanced, c, out, 0)
          /\ hist' = Append(hist, CallerQuery(c).s)

NextParams == CallParams

SpecParams == InitParams /\ [][NextParams]_vars

-----------------------------------------------------------------------------
(* SpecConfig: the decorators are created with any integers, negative ones *)
(* included (cache_query and cache_query_advanced keep their arguments as  *)
(* they are given), and the decorated functions are called.                *)

\* calls of decorated functions in one behaviour of SpecConfig
MaxConfigCalls == 3

ConfigAges == {0 - 1, 1}
ConfigSizes == {0 - 1, 2}

ConfigCalls == {Kw(QA), Kw(QB), Kw(QAB)}

InitConfig ==
    /\ InitStore
    /\ \E age \in ConfigAges, size \in ConfigSizes :
          cfg = [w \in Wrappers |-> Config(age, size, TRUE, TRUE)]

CallConfig ==
    /\ TotalCalls < MaxConfigCalls
    /\ \E w \in Wrappers, c \in ConfigCalls :
          /\ Call(w, c, "rows1", 0)
          /\ hist' = Append(hist, CallerQuery(c).s)

NextConfig == CallConfig \/ Tick

SpecConfig == InitConfig /\ [][NextConfig]_vars

-----------------------------------------------------------------------------
(* SpecHits: the advanced wrapper with max_size 4 and a maximum age of one *)
(* second, called with queries q1, q2, ... numbered as in SpecCapacity:    *)
(* entries are hit, grow stale and are evicted.                            *)

HitsMaxAge == 1
HitsMaxSize == 4

InitHits ==
    /\ InitStore
    /\ cfg = [w \in Wrappers |-> Config(HitsMaxAge, HitsMaxSize, TRUE, TRUE)]

CallHits ==
    /\ TotalCalls < MaxCapCalls
    /\ \E i \in 1..(Used + 1) :
          /\ Call(Advanced, Kw(CapText(i)), "rows1", 0)
          /\ hist' = Append(hist, CapText(i))

NextHits == CallHits \/ Tick

SpecHits == InitHits /\ [][NextHits]_vars

-----------------------------------------------------------------------------
(* SpecThreads: two threads call the decorated functions at the same time. *)
(* The wrappers take no lock, so a thread switch can fall between any two  *)
(* of a wrapper's operations on query_cache and cache_stats.  Each such    *)
(* operation is one step of the thread; `cache_stats[k] += 1` is a read    *)
(* (taken with the step before it) and a write.  Before the threads start, *)
(* calls made one after another fill the store.                            *)

\* calls made one after another before the threads start
MaxSeqCalls == 4

InitThreads ==
    /\ InitStore
    /\ cfg = [w \in Wrappers |-> Config(HitsMaxAge, HitsMaxSize, TRUE, TRUE)]

Started == \E t \in Threads : threads[t].pc # "idle"

\* a call that returns before the next one is made, for a query not used yet
CallSeq ==
    /\ ~Started
    /\ TotalCalls < MaxSeqCalls
    /\ Call(Advanced, Kw(CapText(Used + 1)), "rows1", 0)
    /\ hist' = Append(hist, CapText(Used + 1))

\* time passes before the threads start
TickSeq == ~Started /\ Tick

Goto(t, next) ==
    /\ threads' = [threads EXCEPT ![t] = next]
    /\ UNCHANGED <<rate_vars, ext_vars>>

Return(th, error) == [th EXCEPT !.pc = "done", !.error = error]

\* after the lookup found no fresh entry: cache_query_advanced counts a miss
\* (it reads the counter here), cache_query goes on to call the function
ToFunc(th) ==
    IF th.w = Advanced
    THEN [th EXCEPT !.pc = "count_miss", !.counter = cache_stats[Advanced].misses]
    ELSE [th EXCEPT !.pc = "func"]

\* the wrapper is entered: the query is found, the key is derived and
\* time.time() is read.  The first query, the last one and one not used yet.
Enter(t) ==
    /\ threads[t].pc = "idle"
    /\ \E w \in Wrappers, i \in {1, Used, Used + 1} \ {0} :
          LET c == Kw(CapText(i))
              query == ExtractQuery(c.args, c.kwargs)
              params == ExtractParams(c.args, c.kwargs)
          IN  /\ Truthy(query)
              /\ Goto(t, [Idle EXCEPT
                     !.pc = "test", !.w = w,
                     !.cache_key = IF w = Simple
                                   THEN SimpleKey(query, cfg[w].ignore_whitespace)
                                   ELSE AdvancedKey(query, params, cfg[w].include_params),
                     !.query = IF w = Simple
                               THEN NormalizedQuery(query, cfg[w].ignore_whitespace)
                               ELSE Normalize(query.s),
                     !.current_time = now])
              /\ ncalls' = [ncalls EXCEPT ![w] = @ + 1]
              /\ hist' = Append(hist, CapText(i))
    /\ UNCHANGED <<query_cache, cache_stats, cfg, now, last>>

\* if cache_key in query_cache
Test(t) ==
    LET th == threads[t]
    IN  /\ th.pc = "test"
        /\ Goto(t, IF Has(query_cache, th.cache_key)
                   THEN [th EXCEPT !.pc = "read"]
                   ELSE ToFunc([th EXCEPT !.found = "miss"]))
        /\ UNCHANGED <<query_cache, cache_stats, cfg, now, ncalls, last, hist>>

\* cached_data = query_cache[cache_key] and the test of its age
Read(t) ==
    LET th == threads[t]
        cached_data == Get(query_cache, th.cache_key)
        hit == [th EXCEPT !.found = "hit", !.result = cached_data.result]
        stale == [th EXCEPT !.found = "expired"]
    IN  /\ th.pc = "read"
        /\ Goto(t, IF ~Has(query_cache, th.cache_key) THEN Return(th, "KeyError")
                   ELSE IF IsFresh(th.current_time, cached_data.timestamp,
                                   cfg[th.w].max_age_seconds)
                   THEN IF th.w = Advanced
                        THEN [hit EXCEPT !.pc = "count_hit",
                                         !.counter = cache_stats[Advanced].hits]
                        ELSE Return(hit, "none")
                   ELSE IF th.w = Advanced
                        THEN [stale EXCEPT !.pc = "count_expired",
                                           !.counter = cache_stats[Advanced].expired]
                        ELSE [stale EXCEPT !.pc = "del"])
        /\ UNCHANGED <<query_cache, cache_stats, cfg, now, ncalls, last, hist>>

\* cache_stats['hits'] += 1, and the cached result is returned
CountHit(t) ==
    LET th == threads[t]
    IN  /\ th.pc = "count_hit"
        /\ cache_stats' = [cache_stats EXCEPT ![Advanced].hits = th.counter + 1]
        /\ Goto(t, Return(th, "none"))
        /\ UNCHANGED <<query_cache, cfg, now, ncalls, last, hist>>

\* cache_stats['expired'] += 1
CountExpired(t) ==
    LET th == threads[t]
    IN  /\ th.pc = "count_expired"
        /\ cache_stats' = [cache_stats EXCEPT ![Advanced].expired = th.counter + 1]
        /\ Goto(t, [th EXCEPT !.pc = "del"])
        /\ UNCHANGED <<query_cache, cfg, now, ncalls, last, hist>>

\* del query_cache[cache_key]
Delete(t) ==
    LET th == threads[t]
    IN  /\ th.pc = "del"
        /\ IF Has(query_cache, th.cache_key)
           THEN /\ query_cache' = Del(query_cache, th.cache_key)
                /\ Goto(t, ToFunc(th))
           ELSE /\ Goto(t, Return(th, "KeyError"))
                /\ UNCHANGED query_cache
        /\ UNCHANGED <<cache_stats, cfg, now, ncalls, last, hist>>

\* cache_stats['misses'] += 1
CountMiss(t) ==
    LET th == threads[t]
    IN  /\ th.pc = "count_miss"
        /\ cache_stats' = [cache_stats EXCEPT ![Advanced].misses = th.counter + 1]
        /\ Goto(t, [th EXCEPT !.pc = "func"])
        /\ UNCHANGED <<query_cache, cfg, now, ncalls, last, hist>>

\* result = func(*args, **kwargs)
Func(t) ==
    LET th == threads[t]
    IN  /\ th.pc = "func"
        /\ \E out \in {Raises, "rows1"} :
              Goto(t, IF out = Raises
                      THEN Return([th EXCEPT !.invoked = TRUE], Raises)
                      ELSE [th EXCEPT !.pc = "evict", !.invoked = TRUE, !.result = out])
        /\ UNCHANGED <<query_cache, cache_stats, cfg, now, ncalls, last, hist>>

\* if len(query_cache) >= max_size: the keys to delete are sorted out
Oldest(t) ==
    LET th == threads[t]
        oldest_keys == IF Len(query_cache) >= cfg[th.w].max_size
                       THEN Prefix(SortedKeys(query_cache), EvictCount(cfg[th.w].max_size))
                       ELSE <<>>
    IN  /\ th.pc = "evict"
        /\ Goto(t, [th EXCEPT !.pc = IF oldest_keys = <<>> THEN "store" ELSE "evict_del",
                              !.oldest_keys = oldest_keys])
        /\ UNCHANGED <<query_cache, cache_stats, cfg, now, ncalls, last, hist>>

\* for key in oldest_keys: del query_cache[key]
EvictDelete(t) ==
    LET th == threads[t]
        key == Head(th.oldest_keys)
        rest == Tail(th.oldest_keys)
    IN  /\ th.pc = "evict_del"
        /\ IF Has(query_cache, key)
           THEN /\ query_cache' = Del(query_cache, key)
                /\ Goto(t, [th EXCEPT !.pc = IF rest = <<>> THEN "store" ELSE "evict_del",
                                      !.oldest_keys = rest])
           ELSE /\ Goto(t, Return(th, "KeyError"))
                /\ UNCHANGED query_cache
        /\ UNCHANGED <<cache_stats, cfg, now, ncalls, last, hist>>

\* query_cache[cache_key] = {...}
Store(t) ==
    LET th == threads[t]
        entry == IF th.w = Simple
                 THEN SimpleEntry(th.cache_key, th.result, th.current_time, th.query,
                                  cfg[th.w].max_age_seconds)
                 ELSE AdvancedEntry(th.cache_key, th.result, th.current_time, th.query,
                                    None, cfg[th.w].include_params)
    IN  /\ th.pc = "store"
        /\ query_cache' = Put(query_cache, entry)
        /\ Goto(t, IF th.w = Advanced THEN [th EXCEPT !.pc = "size"]
                   ELSE Return(th, "none"))
        /\ UNCHANGED <<cache_stats, cfg, now, ncalls, last, hist>>

\* cache_stats['size'] = len(query_cache), and the result is returned
Size(t) ==
    LET th == threads[t]
    IN  /\ th.pc = "size"
        /\ cache_stats' = [cache_stats EXCEPT ![Advanced].size = Len(query_cache)]
        /\ Goto(t, Return(th, "none"))
        /\ UNCHANGED <<query_cache, cfg, now, ncalls, last, hist>>

\* clear_cache(): query_cache.clear()
ClearStore(t) ==
    /\ threads[t].pc = "idle"
    /\ query_cache' = Cleared(query_cache)
    /\ Goto(t, [Idle EXCEPT !.pc = "clear_stats", !.w = Advanced, !.found = "clear"])
    /\ UNCHANGED <<cache_stats, cfg, now, ncalls, last, hist>>

\* clear_cache(): cache_stats.update(...)
ClearStats(t) ==
    LET th == threads[t]
    IN  /\ th.pc = "clear_stats"
        /\ cache_stats' = [cache_stats EXCEPT ![Advanced] = ZeroStats]
        /\ Goto(t, Return(th, "none"))
        /\ UNCHANGED <<query_cache, cfg, now, ncalls, last, hist>>

Step(t) ==
    \/ Enter(t) \/ Test(t) \/ Read(t) \/ CountHit(t) \/ CountExpired(t) \/ Delete(t)
    \/ CountMiss(t) \/ Func(t) \/ Oldest(t) \/ EvictDelete(t) \/ Store(t) \/ Size(t)
    \/ ClearStore(t) \/ ClearStats(t)

NextThreads == CallSeq \/ TickSeq \/ \E t \in Threads : Step(t)

SpecThreads == InitThreads /\ [][NextThreads]_vars

-----------------------------------------------------------------------------
(* RateLimitingMiddleware (Django-Middleware-0x03, middleware/security.py). *)
(* Requests are handled one at a time.  django's cache keeps a value until *)
(* the timeout given to cache.set has passed.                              *)

\* requests handled in one behaviour of SpecRate
MaxRequests == 7
\* largest clock value in SpecRate
MaxRateClock == 302

\* settings.RATE_LIMITS (and the middleware's own default, the same table)
RateLimits ==
    [default |-> [requests |-> 100, window |-> 3600],
     auth |-> [requests |-> 5, window |-> 300],
     messages |-> [requests |-> 10, window |-> 60],
     api |-> [requests |-> 1000, window |-> 3600]]

\* str.startswith
StartsWith(text, prefix) ==
    /\ Len(text) >= Len(prefix)
    /\ SubSeq(text, 1, Len(prefix)) = prefix

ApiAuthPrefix == <<"/", "a", "p", "i", "/", "a", "u", "t", "h", "/">>
ApiMessagesPrefix == <<"/", "a", "p", "i", "/", "m", "e", "s", "s", "a", "g", "e", "s", "/">>
ApiPrefix == <<"/", "a", "p", "i", "/">>

\* _get_rate_limit_type
GetRateLimitType(request) ==
    IF StartsWith(request.path, ApiAuthPrefix) THEN "auth"
    ELSE IF StartsWith(request.path, ApiMessagesPrefix) /\ request.method = "POST"
    THEN "messages"
    ELSE IF StartsWith(request.path, ApiPrefix) THEN "api"
    ELSE "default"

\* _get_client_ip: the first address of X-Forwarded-For, else REMOTE_ADDR
GetClientIp(request) ==
    IF request.forwarded # <<>> THEN request.forwarded[1] ELSE request.remote_addr

\* user_id: request.user.id of an authenticated user, else None (written 0)
UserId(request) == IF request.user.is_authenticated THEN request.user.id ELSE 0

\* cache_key: "rate_limit_{limit_type}_user_{user_id}" or
\* "rate_limit_{limit_type}_ip_{client_ip}", as the parts that are joined
RateCacheKey(limit_type, user_id, client_ip) ==
    IF user_id # 0
    THEN <<"rate_limit", limit_type, "user", ToString(user_id)>>
    ELSE <<"rate_limit", limit_type, "ip", client_ip>>

\* cache.get(key, default): the value, unless none was set or its time is up
CacheGet(cache, key, default, time) ==
    IF key \in DOMAIN cache /\ cache[key].expires > time
    THEN cache[key].value
    ELSE default

\* cache.set(key, value, timeout)
CacheSet(cache, key, value, timeout, time) ==
    [k \in DOMAIN cache \cup {key} |->
        IF k = key THEN [value |-> value, expires |-> time + timeout] ELSE cache[k]]

\* _check_rate_limit: the counter that is written back to the cache
Counted(current, current_time, limit_config) ==
    IF current_time - current.window_start > limit_config.window
    THEN [count |-> 1, window_start |-> current_time]
    ELSE [current EXCEPT !.count = @ + 1]

\* a mutant of Allowed: the last request of the quota is refused
AllowedBelow(current, limit_config) == current.count < limit_config.requests

\* _check_rate_limit: its result
Allowed(current, limit_config) == current.count <= limit_config.requests

\* _get_retry_after: max(1, int(window - time_passed))
RetryAfter(current, limit_config, time) ==
    LET left == limit_config.window - (time - current.window_start)
    IN  IF left > 1 THEN left ELSE 1

\* the JsonResponse of a refused request
TooManyRequests(limit_type, limit_config, retry_after, cache_key) ==
    [status |-> 429, handled |-> FALSE, cache_key |-> cache_key,
     limit_type |-> limit_type, retry_after |-> retry_after,
     limit |-> limit_config.requests, remaining |-> 0, reset |-> 0]

\* the response of get_response with the headers _add_rate_limit_headers sets
Passed(limit_type, limit_config, current, cache_key) ==
    [status |-> 200, handled |-> TRUE, cache_key |-> cache_key,
     limit_type |-> limit_type, retry_after |-> 0,
     limit |-> limit_config.requests,
     remaining |-> IF limit_config.requests > current.count
                   THEN limit_config.requests - current.count ELSE 0,
     reset |-> current.window_start + limit_config.window]

\* what a client that counts its requests for one key knows: the time of the
\* first request of a run of requests that started when the key had been
\* quiet for longer than the window, how many requests of the run were made
\* less than the window after its start, and how many of them were passed on
Watched(seen, cache_key, limit_config, handled, time) ==
    LET known == cache_key \in DOMAIN seen
        quiet == known /\ time - seen[cache_key].last > limit_config.window
        old == IF known /\ ~quiet THEN seen[cache_key]
               ELSE [start |-> time, last |-> time, made |-> 0, passed |-> 0,
                     requests |-> limit_config.requests]
        within == time - old.start < limit_config.window
        new == [old EXCEPT !.last = time,
                           !.made = IF within THEN @ + 1 ELSE @,
                           !.passed = IF within /\ handled THEN @ + 1 ELSE @]
    IN  [k \in DOMAIN seen \cup {cache_key} |-> IF k = cache_key THEN new ELSE seen[k]]

\* RateLimitingMiddleware.__call__
RateLimitingMiddleware(request) ==
    LET client_ip == GetClientIp(request)
        user_id == UserId(request)
        limit_type == GetRateLimitType(request)
        limit_config == RateLimits[limit_type]
        cache_key == RateCacheKey(limit_type, user_id, client_ip)
        current == Counted(CacheGet(django_cache, cache_key,
                                    [count |-> 0, window_start |-> now], now),
                           now, limit_config)
        allowed == Allowed(current, limit_config)
    IN  /\ django_cache' = CacheSet(django_cache, cache_key, current,
                                    limit_config.window, now)
        /\ response' = IF allowed
                       THEN Passed(limit_type, limit_config, current, cache_key)
                       ELSE TooManyRequests(limit_type, limit_config,
                                RetryAfter(current, limit_config, now), cache_key)
        /\ windows' = Watched(windows, cache_key, limit_config, allowed, now)

\* the requests: a login without a session, the same through a proxy, a
\* login of user 7, a posted message, and a page outside the API
LoginPath == ApiAuthPrefix \o <<"l", "o", "g", "i", "n", "/">>
Anonymous == [is_authenticated |-> FALSE, id |-> 0]
Login ==
    [path |-> LoginPath, method |-> "POST", user |-> Anonymous,
     remote_addr |-> "10.0.0.1", forwarded |-> <<>>]
LoginProxied ==
    [path |-> LoginPath, method |-> "POST", user |-> Anonymous,
     remote_addr |-> "10.0.0.2", forwarded |-> <<"10.0.0.1", "10.0.0.2">>]
LoginUser ==
    [path |-> LoginPath, method |-> "POST", user |-> [is_authenticated |-> TRUE, id |-> 7],
     remote_addr |-> "10.0.0.1", forwarded |-> <<>>]
PostMessage ==
    [path |-> ApiMessagesPrefix, method |-> "POST", user |-> Anonymous,
     remote_addr |-> "10.0.0.1", forwarded |-> <<>>]
Home ==
    [path |-> <<"/">>, method |-> "GET", user |-> Anonymous,
     remote_addr |-> "10.0.0.1", forwarded |-> <<>>]
Requests == {Login, LoginProxied, LoginUser, PostMessage, Home}

\* half of the 'auth' window, and a second more
Elapses == {RateLimits["auth"].window \div 2, (RateLimits["auth"].window \div 2) + 1}

InitRateLimiting ==
    /\ InitStore
    /\ cfg = [w \in Wrappers |-> Config(DefaultMaxAge, DefaultMaxSize, TRUE, TRUE)]

Request ==
    /\ nrequests < MaxRequests
    /\ \E request \in Requests : RateLimitingMiddleware(request)
    /\ nrequests' = nrequests + 1
    /\ UNCHANGED <<query_cache, cache_stats, cfg, now, ncalls, last, hist, threads,
                   ext_vars>>

Elapse ==
    /\ \E d \in Elapses : now + d <= MaxRateClock /\ now' = now + d
    /\ UNCHANGED <<query_cache, cache_stats, cfg, ncalls, last, hist, threads,
                   django_cache, response, windows, nrequests, ext_vars>>

NextRate == Request \/ Elapse

SpecRate == InitRateLimiting /\ [][NextRate]_vars

-----------------------------------------------------------------------------
(* SpecShared: three decorated functions use the one module-level store:   *)
(* fetch_users_with_cache (cache_query), fetch_users_with_params and one   *)
(* more function decorated with cache_query_advanced.                      *)

\* calls of decorated functions in one behaviour of SpecShared
MaxSharedCalls == 2

\* a second function decorated with @cache_query_advanced(...)
AdvancedOther == "other_with_params"
AdvancedWrappers == {Advanced, AdvancedOther}
SharedWrappers == {Simple} \cup AdvancedWrappers

SharedCalls == {Kw(QA), Pos(QA), PosP(QA, P1)}

InitShared ==
    /\ InitRate
    /\ InitExt
    /\ threads = [t \in Threads |-> Idle]
    /\ query_cache = <<>>
    /\ cache_stats = [w \in AdvancedWrappers |-> ZeroStats]
    /\ now = 0
    /\ ncalls = [w \in SharedWrappers |-> 0]
    /\ last = NoCall
    /\ hist = <<>>
    /\ \E a1 \in SmallAges, a2 \in SmallAges, ip \in BOOLEAN :
          cfg = [w \in SharedWrappers |->
                    IF w = Simple THEN Config(SourceMaxAgeSimple, SourceMaxSizeSimple, TRUE, TRUE)
                    ELSE IF w = Advanced THEN Config(a1, DefaultMaxSize, TRUE, TRUE)
                    ELSE Config(a2, DefaultMaxSize, TRUE, ip)]

CallShared ==
    /\ Len(hist) < MaxSharedCalls
    /\ \E w \in SharedWrappers, c \in SharedCalls, out \in Results :
          /\ Call(w, c, out, 0)
          /\ hist' = Append(hist, w)

\* wrapper.clear_cache() of the function w decorated with cache_query_advanced
ClearCacheOf(w) ==
    /\ query_cache' = Cleared(query_cache)
    /\ cache_stats' = [cache_stats EXCEPT ![w] = ZeroStats]
    /\ last' = [NoCall EXCEPT !.w = w, !.outcome = "clear", !.at = now]
    /\ UNCHANGED <<cfg, now, ncalls, hist, threads, rate_vars, ext_vars>>

ClearShared == \E w \in AdvancedWrappers : ClearCacheOf(w)

NextShared == CallShared \/ Tick \/ ClearShared

SpecShared == InitShared /\ [][NextShared]_vars

-----------------------------------------------------------------------------
(* retry_on_failure (python-decorators-0x01/3-retry_on_failure.py).  Delays *)
(* are whole numbers of a time unit.  One step is one invocation of the    *)
(* wrapped function or one time.sleep.                                     *)

\* retries is at most MaxRetries in SpecRetry
MaxRetries == 2

RetryCounts == (0 - 1)..MaxRetries
Delays == {0 - 1, 1, 2}
BackoffFactors == {1, 2}

\* what the wrapped function may raise: sqlite3.OperationalError and
\* ValueError are Exceptions, KeyboardInterrupt is a BaseException only
ExceptionTypes == {"OperationalError", "ValueError", "KeyboardInterrupt"}

\* the classes an `except cls` clause catches ("Error" is sqlite3.Error)
Subclasses(cls) ==
    IF cls = "Exception"
    THEN {"Exception", "Error", "OperationalError", "ValueError", "TypeError"}
    ELSE IF cls = "Error" THEN {"Error", "OperationalError"}
    ELSE {cls}

\* isinstance(e, classes)
IsInstance(e, classes) == \E cls \in classes : e.type \in Subclasses(cls)

\* the tuples of exception types the source decorates with
ExceptionTuples == {{"Exception"}, {"OperationalError"}}

Returned(attempt) == [kind |-> "return", type |-> "None", attempt |-> attempt]
Raised(type, attempt) == [kind |-> "raise", type |-> type, attempt |-> attempt]

\* a mutant of Attempts: one attempt too many
AttemptsOneMore(retries) == retries + 2

\* range(retries + 1): the number of passes of the loop
Attempts(retries) == retries + 1

\* a mutant of SleepsAfter: the wrapper sleeps after the last attempt too
SleepsAfterAlways(attempt, retries) == TRUE

\* `if attempt < retries`: the wrapper sleeps after this failed attempt
SleepsAfter(attempt, retries) == attempt < retries

\* a mutant of Retryable: every Exception is retried
RetryableAny(e, exceptions) == IsInstance(e, {"Exception"})

\* `except exceptions as e` catches e
Retryable(e, exceptions) == IsInstance(e, exceptions)

\* the steps of retry_on_failure's wrapper touch nothing else
RetryOnly ==
    UNCHANGED <<query_cache, cache_stats, cfg, now, ncalls, last, hist, threads,
                rate_vars, runs, orm>>

\* the wrapper is entered; with an empty range the loop is skipped and
\* `raise last_exception` raises None, which is a TypeError
RetryCall ==
    /\ RetryOnly
    /\ retry.pc = "idle"
    /\ retry' = IF Attempts(retry.retries) <= 0
                THEN [retry EXCEPT !.pc = "done", !.outcome = Raised("TypeError", 0)]
                ELSE [retry EXCEPT !.pc = "attempt", !.attempt = 0,
                                   !.current_delay = retry.delay,
                                   !.last_exception = NoException]

\* after a caught failure of the pass `attempt`: sleep, or leave the loop
\* and raise last_exception
AfterFailure(r, e) ==
    IF SleepsAfter(r.attempt, r.retries)
    THEN [r EXCEPT !.pc = "sleep", !.last_exception = e]
    ELSE IF r.attempt + 1 < Attempts(r.retries)
    THEN [r EXCEPT !.pc = "attempt", !.attempt = @ + 1, !.last_exception = e]
    ELSE [r EXCEPT !.pc = "done", !.last_exception = e, !.outcome = e]

\* one pass of the loop up to the sleep: func(*args, **kwargs) returns or raises
Invoke ==
    /\ RetryOnly
    /\ retry.pc = "attempt"
    /\ \E out \in {"return"} \cup ExceptionTypes :
          LET n == Len(retry.invoked) + 1
              e == Raised(out, n)
              r == [retry EXCEPT !.invoked = Append(@, IF out = "return"
                                                        THEN Returned(n) ELSE e)]
          IN  retry' = IF out = "return"
                       THEN [r EXCEPT !.pc = "done", !.outcome = Returned(n)]
                       ELSE IF Retryable(e, retry.exceptions)
                       THEN AfterFailure(r, e)
                       ELSE [r EXCEPT !.pc = "done", !.outcome = e]

\* time.sleep(current_delay), which raises ValueError for a negative
\* length, then current_delay *= backoff_factor and the next pass of the
\* loop, or `raise last_exception` when there is none
Sleep ==
    /\ RetryOnly
    /\ retry.pc = "sleep"
    /\ LET r == [retry EXCEPT !.slept = Append(@, retry.current_delay),
                              !.current_delay = @ * retry.backoff_factor]
       IN  retry' = IF retry.current_delay < 0
                    THEN [retry EXCEPT !.pc = "done", !.outcome = Raised("ValueError", 0)]
                    ELSE IF retry.attempt + 1 < Attempts(retry.retries)
                    THEN [r EXCEPT !.pc = "attempt", !.attempt = @ + 1]
                    ELSE [r EXCEPT !.pc = "done", !.outcome = retry.last_exception]

InitRetry ==
    /\ InitRate
    /\ threads = [t \in Threads |-> Idle]
    /\ query_cache = <<>>
    /\ cache_stats = [w \in {Advanced} |-> ZeroStats]
    /\ cfg = [w \in Wrappers |-> Config(DefaultMaxAge, DefaultMaxSize, TRUE, TRUE)]
    /\ now = 0
    /\ ncalls = [w \in Wrappers |-> 0]
    /\ last = NoCall
    /\ hist = <<>>
    /\ runs = <<>>
    /\ orm = EmptyDatabase
    /\ \E retries \in RetryCounts, delay \in Delays,
          backoff_factor \in BackoffFactors, exceptions \in ExceptionTuples :
          retry = Decorated(retries, delay, backoff_factor, exceptions)

NextRetry == RetryCall \/ Invoke \/ Sleep

SpecRetry == InitRetry /\ [][NextRetry]_vars

\* every invocation of the wrapped function returns or raises, and every
\* time.sleep returns: a call that can take a step takes it
SpecRetryFair == SpecRetry /\ WF_vars(NextRetry)

-----------------------------------------------------------------------------
(* Connections and transactions: with_db_connection of 1-with_db_connection *)
(* (it commits and rolls back itself), with_db_connection and transactional *)
(* of 2-transactional, DatabaseConnection and DatabaseTransaction of        *)
(* 0-databaseconnection.  A run is one call or one with-block; ops is what  *)
(* was called on the sqlite3 connection, in order.  The environment of a    *)
(* run says what the wrapped function (or the block) does, whether          *)
(* sqlite3.connect succeeds, and which call of commit and of rollback, if   *)
(* any, raises sqlite3.OperationalError.                                    *)

\* runs in one behaviour of SpecDb
MaxRuns == 2

NoExc == [type |-> "None", by |-> "none"]
Exc(type, by) == [type |-> type, by |-> by]

FuncOutcomes == {"return", "ValueError", "OperationalError", "KeyboardInterrupt"}
FailAt == {0, 1, 2}
Envs == [func : FuncOutcomes, connect : BOOLEAN, commit_fails : FailAt,
         rollback_fails : FailAt]

Count(ops, op) == Cardinality({i \in 1..Len(ops) : ops[i] = op})

\* func(conn, *args, **kwargs), or the body of the with-block
Body(ops, env) ==
    [ops |-> Append(ops, "func"),
     exc |-> IF env.func = "return" THEN NoExc ELSE Exc(env.func, "func")]

\* conn.commit()
Commit(ops, env) ==
    [ops |-> Append(ops, "commit"),
     exc |-> IF env.commit_fails = Count(ops, "commit") + 1
             THEN Exc("OperationalError", "commit") ELSE NoExc]

\* conn.rollback()
Rollback(ops, env) ==
    [ops |-> Append(ops, "rollback"),
     exc |-> IF env.rollback_fails = Count(ops, "rollback") + 1
             THEN Exc("OperationalError", "rollback") ELSE NoExc]

\* an except clause that rolls back and re-raises: `conn.rollback(); raise e`
RollbackAndRaise(ops, e, env) ==
    LET r == Rollback(ops, env)
    IN  [ops |-> r.ops, exc |-> IF r.exc = NoExc THEN e ELSE r.exc]

\* `except classes as e` catches e
Caught(e, classes) == IsInstance(e, classes)

\* try: func(...); conn.commit()  except classes: conn.rollback(); raise e
CommitOrRollback(ops, classes, env) ==
    LET f == Body(ops, env)
        tried == IF f.exc = NoExc THEN Commit(f.ops, env) ELSE f
    IN  IF tried.exc = NoExc THEN tried
        ELSE IF Caught(tried.exc, classes) THEN RollbackAndRaise(tried.ops, tried.exc, env)
        ELSE tried

\* transactional's wrapper
Transactional(ops, env) == CommitOrRollback(ops, {"Exception"}, env)

\* finally: if conn: conn.close()
Finally(r) == [r EXCEPT !.ops = Append(@, "close")]

\* sqlite3.connect failed: conn is None, the exception is re-raised and the
\* finally clause closes nothing
NotConnected == [ops |-> <<>>, exc |-> Exc("OperationalError", "connect")]

\* with_db_connection of 1-with_db_connection.py around a plain function
WithDbConnectionCommitting(env) ==
    IF ~env.connect THEN NotConnected
    ELSE Finally(CommitOrRollback(<<"connect">>, {"Error", "Exception"}, env))

\* with_db_connection of 2-transactional.py around transactional(func)
WithDbConnectionTransactional(env) ==
    IF ~env.connect THEN NotConnected
    ELSE Finally(Transactional(<<"connect">>, env))

\* DatabaseConnection.__exit__: the operations it makes; a sqlite3.Error of
\* rollback or commit is caught and False is returned before close is called
Exit(ops, raised, env) ==
    LET o == IF raised THEN Rollback(ops, env) ELSE Commit(ops, env)
    IN  IF o.exc = NoExc THEN Append(o.ops, "close") ELSE o.ops

\* with DatabaseConnection() as db: ...   (__exit__ returns False: the
\* block's exception, if any, goes on to the caller)
WithDatabaseConnection(env) ==
    IF ~env.connect THEN NotConnected
    ELSE LET f == Body(<<"connect">>, env)
         IN  [ops |-> Exit(f.ops, f.exc # NoExc, env), exc |-> f.exc]

\* DatabaseTransaction.__exit__
ExitTransaction(ops, in_transaction, raised, env) ==
    LET o == IF raised THEN Rollback(ops, env) ELSE Commit(ops, env)
    IN  IF ~in_transaction THEN Exit(ops, raised, env)
        ELSE IF o.exc = NoExc THEN Exit(o.ops, raised, env)
        ELSE o.ops

\* with DatabaseTransaction(autocommit=autocommit) as db: ...
WithDatabaseTransaction(autocommit, env) ==
    IF ~env.connect THEN NotConnected
    ELSE LET entered == IF autocommit THEN <<"connect">> ELSE <<"connect", "begin">>
             f == Body(entered, env)
         IN  [ops |-> ExitTransaction(f.ops, ~autocommit, f.exc # NoExc, env),
              exc |-> f.exc]

\* the runs so far and this one
Ran(by, env, r) ==
    Append(runs, [by |-> by, func |-> env.func, ops |-> r.ops, exc |-> r.exc])

\* a run touches the connection only
DbOnly ==
    UNCHANGED <<query_cache, cache_stats, cfg, now, ncalls, last, hist, threads,
                rate_vars, retry, orm>>

\* get_user_by_id(...) of 1-with_db_connection.py
GetUserById ==
    /\ Len(runs) < MaxRuns
    /\ \E env \in Envs :
          runs' = Ran("get_user_by_id", env, WithDbConnectionCommitting(env))
    /\ DbOnly

\* update_user_email(...) of 2-transactional.py
UpdateUserEmail ==
    /\ Len(runs) < MaxRuns
    /\ \E env \in Envs :
          runs' = Ran("update_user_email", env, WithDbConnectionTransactional(env))
    /\ DbOnly

UseDatabaseConnection ==
    /\ Len(runs) < MaxRuns
    /\ \E env \in Envs :
          runs' = Ran("DatabaseConnection", env, WithDatabaseConnection(env))
    /\ DbOnly

UseDatabaseTransaction ==
    /\ Len(runs) < MaxRuns
    /\ \E env \in Envs, autocommit \in BOOLEAN :
          runs' = Ran("DatabaseTransaction", env, WithDatabaseTransaction(autocommit, env))
    /\ DbOnly

NextDb == GetUserById \/ UpdateUserEmail \/ UseDatabaseConnection \/ UseDatabaseTransaction

InitDb ==
    /\ InitStore
    /\ cfg = [w \in Wrappers |-> Config(DefaultMaxAge, DefaultMaxSize, TRUE, TRUE)]

SpecDb == InitDb /\ [][NextDb]_vars

-----------------------------------------------------------------------------
(* Django-signals_orm-0x04/messaging: Message.save and the handlers of its *)
(* pre_save and post_save signals.  A table is the sequence of its rows, a *)
(* primary key is the position of the row, and 0 stands for None / NULL.   *)
(* The handlers are taken as connected to the signals, as tests.py takes   *)
(* them.                                                                   *)

\* Message objects held in memory, and saves, in one behaviour
MaxInstances == 2
MaxSaves == 3

\* the keys of the users
Users == {1, 2}

\* the texts of messages
Contents == {"a", "b"}

\* Message(sender=..., receiver=..., content=..., parent_message=...): an
\* object that was never saved, its other fields at their defaults
Message(sender, receiver, content, parent_message) ==
    [pk |-> 0, sender |-> sender, receiver |-> receiver, content |-> content,
     edited |-> FALSE, edit_count |-> 0, parent_message |-> parent_message,
     thread_depth |-> 0]

\* Message.objects.get(pk=pk): a new object with the fields of the row
MessageOfRow(messages, pk) ==
    [pk |-> pk, sender |-> messages[pk].sender, receiver |-> messages[pk].receiver,
     content |-> messages[pk].content, edited |-> messages[pk].edited,
     edit_count |-> messages[pk].edit_count,
     parent_message |-> messages[pk].parent_message,
     thread_depth |-> messages[pk].thread_depth]

\* what the INSERT or the UPDATE of super().save() writes: every field
RowOfMessage(instance) ==
    [sender |-> instance.sender, receiver |-> instance.receiver,
     content |-> instance.content, edited |-> instance.edited,
     edit_count |-> instance.edit_count, parent_message |-> instance.parent_message,
     thread_depth |-> instance.thread_depth]

\* Message.save, "If this is a reply, set thread depth"
ThreadDepth(instance, messages) ==
    IF instance.parent_message # 0
    THEN messages[instance.parent_message].thread_depth + 1
    ELSE 0

\* original.content != self.content, of a saved object
ContentDiffers(instance, messages) ==
    /\ instance.pk # 0
    /\ messages[instance.pk].content # instance.content

\* Message.save, "Edit tracking": the counter of the object in memory
EditTracking(instance, messages) ==
    IF ContentDiffers(instance, messages)
    THEN [instance EXCEPT !.edited = TRUE, !.edit_count = @ + 1]
    ELSE instance

\* log_message_edit, the handler of pre_save: the MessageHistory table
log_message_edit(instance, messages, history) ==
    IF ContentDiffers(instance, messages)
    THEN Append(history, [message |-> instance.pk,
                          old_content |-> messages[instance.pk].content,
                          new_content |-> instance.content,
                          edited_by |-> instance.sender,
                          edit_reason |-> "None"])
    ELSE history

\* a mutant of NotificationType: every notification is of type 'message'
NotificationTypeMessage(instance) == "message"

\* 'reply' if instance.parent_message else 'message'
NotificationType(instance) ==
    IF instance.parent_message # 0 THEN "reply" ELSE "message"

\* create_message_notification, the handler of post_save: the Notification
\* table
create_message_notification(instance, created, notifications) ==
    IF created
    THEN Append(notifications,
                [user |-> instance.receiver, message |-> instance.pk,
                 notification_type |-> NotificationType(instance),
                 title |-> [text |-> IF instance.parent_message # 0
                                     THEN "New reply from" ELSE "New message from",
                            username |-> instance.sender],
                 message_content |-> instance.content])
    ELSE notifications

\* Message.get_thread_root, as a key
RECURSIVE get_thread_root(_, _, _)
get_thread_root(pk, parent_message, messages) ==
    IF parent_message # 0
    THEN get_thread_root(parent_message, messages[parent_message].parent_message,
                         messages)
    ELSE pk

\* the cache keys create_message_notification invalidates
InvalidatedKeys(instance, messages) ==
    {<<"user", instance.receiver, "unread_notifications">>,
     <<"user", instance.receiver, "conversations">>,
     <<"thread", get_thread_root(instance.pk, instance.parent_message, messages),
       "messages">>}

\* cache.delete(key) for each of the keys
CacheDelete(cache, keys) == [k \in (DOMAIN cache) \ keys |-> cache[k]]

\* the steps on messages touch nothing of the decorators or the rate limiter
MessagesOnly ==
    UNCHANGED <<query_cache, cache_stats, cfg, now, ncalls, last, hist, threads,
                response, windows, nrequests, retry, runs>>

\* a Message object is built, not saved yet (Message.objects.create before
\* its save, form.save(commit=False) of send_reply): a user writes to
\* another user, a new conversation or a reply to a saved message
NewMessage ==
    /\ Len(orm.instances) < MaxInstances
    /\ \E sender \in Users, content \in Contents,
          parent_message \in 0..Len(orm.messages) :
       \E receiver \in Users \ {sender} :
          orm' = [orm EXCEPT !.instances =
                     Append(@, Message(sender, receiver, content, parent_message))]
    /\ UNCHANGED django_cache
    /\ MessagesOnly

\* Message.objects.get(pk=...): one more object of a saved message
GetMessage ==
    /\ Len(orm.instances) < MaxInstances
    /\ \E pk \in 1..Len(orm.messages) :
          orm' = [orm EXCEPT !.instances = Append(@, MessageOfRow(orm.messages, pk))]
    /\ UNCHANGED django_cache
    /\ MessagesOnly

\* message.content = ..., as MessageEditForm does to its instance
SetContent ==
    /\ \E i \in 1..Len(orm.instances), content \in Contents :
          /\ orm.instances[i].content # content
          /\ orm' = [orm EXCEPT !.instances[i].content = content]
    /\ UNCHANGED django_cache
    /\ MessagesOnly

\* instance.save(): Message.save, then Model.save: pre_save and its handler
\* log_message_edit, the INSERT (no key yet) or the UPDATE of every field,
\* post_save and its handlers
Save ==
    /\ Len(orm.saved) < MaxSaves
    /\ \E i \in 1..Len(orm.instances) :
          LET self == orm.instances[i]
              depth == [self EXCEPT !.thread_depth = ThreadDepth(self, orm.messages)]
              tracked == EditTracking(depth, orm.messages)
              history == log_message_edit(tracked, orm.messages, orm.history)
              created == tracked.pk = 0
              pk == IF created THEN Len(orm.messages) + 1 ELSE tracked.pk
              instance == [tracked EXCEPT !.pk = pk]
              messages == IF created
                          THEN Append(orm.messages, RowOfMessage(instance))
                          ELSE [orm.messages EXCEPT ![pk] = RowOfMessage(instance)]
          IN  /\ orm' = [messages |-> messages,
                         notifications |-> create_message_notification(
                                               instance, created, orm.notifications),
                         history |-> history,
                         instances |-> [orm.instances EXCEPT ![i] = instance],
                         saved |-> Append(orm.saved,
                                      [instance |-> i, pk |-> pk, created |-> created,
                                       changed |-> ContentDiffers(self, orm.messages)])]
              /\ django_cache' = IF created
                                 THEN CacheDelete(django_cache,
                                                  InvalidatedKeys(instance, messages))
                                 ELSE django_cache
    /\ MessagesOnly

\* conversations_list may have cached a user's conversations, none yet
InitMessages ==
    /\ InitExt
    /\ threads = [t \in Threads |-> Idle]
    /\ query_cache = <<>>
    /\ cache_stats = [w \in {Advanced} |-> ZeroStats]
    /\ cfg = [w \in Wrappers |-> Config(DefaultMaxAge, DefaultMaxSize, TRUE, TRUE)]
    /\ now = 0
    /\ ncalls = [w \in Wrappers |-> 0]
    /\ last = NoCall
    /\ hist = <<>>
    /\ response = [status |-> 0, handled |-> FALSE]
    /\ windows = [k \in {} |-> 0]
    /\ nrequests = 0
    /\ \E cached \in SUBSET {<<"user", u, "conversations">> : u \in Users} :
          django_cache = [k \in cached |-> [value |-> <<>>, expires |-> 300]]

NextMessages == NewMessage \/ GetMessage \/ SetContent \/ Save

SpecMessages == InitMessages /\ [][NextMessages]_vars

-----------------------------------------------------------------------------
(* What the claims speak of *)

\* this step is a call of a decorated function
IsCallStep == TotalCalls' = TotalCalls + 1

\* the call invoked the wrapped function
Invoked(l) == l.outcome \in {"bypass", "miss", "expired"}

\* the call went through the cache, found no fresh entry and stored its result
Cached(l) == l.outcome \in {"miss", "expired"} /\ ~l.raised

\* the call went through the cache and the wrapped function raised
Failed(l) == l.outcome \in {"miss", "expired"} /\ l.raised

\* two calls of the same function with the same arguments, passed the same way
SameCall(l1, l2) ==
    /\ l1.w = l2.w
    /\ l1.db = l2.db
    /\ l1.args = l2.args
    /\ DOMAIN l1.kwargs = DOMAIN l2.kwargs
    /\ \A n \in DOMAIN l1.kwargs : l1.kwargs[n] = l2.kwargs[n]

\* two calls of the same function that pass their arguments the same way
SameWay(l1, l2) ==
    /\ l1.w = l2.w
    /\ l1.db = l2.db
    /\ Len(l1.args) = Len(l2.args)
    /\ DOMAIN l1.kwargs = DOMAIN l2.kwargs

MaxAgeOf(l) == cfg[l.w].max_age_seconds

\* the entry that was under key is gone after the step: the key is absent, or
\* holds an entry stored by this call
Replaced(key) ==
    \/ ~Has(query_cache', key)
    \/ /\ ~last'.raised
       /\ Get(query_cache', key).timestamp = now
       /\ Get(query_cache', key).result = last'.ret

-----------------------------------------------------------------------------
(* C1 *)

\* C1: single invocation on hit.  When a call of a decorated function has
\* cached its result and the next call is the same call, made while the
\* result is within max_age_seconds of the first call's time, the second call
\* does not invoke the wrapped function and returns the result the first
\* call stored.
C1_SingleInvocationOnHit ==
    [][(/\ IsCallStep
        /\ Cached(last)
        /\ SameCall(last, last')
        /\ now - last.at <= MaxAgeOf(last))
       => (/\ last'.outcome = "hit"
           /\ ~Invoked(last')
           /\ last'.ret = last.ret
           /\ query_cache' = query_cache)]_vars

\* a miss of the advanced wrapper stored one entry and the next call hit it
C1_Witness ==
    /\ ncalls[Advanced] = 2
    /\ ncalls[Simple] = 0
    /\ last.outcome = "hit"
    /\ cache_stats[Advanced].hits = 1
    /\ cache_stats[Advanced].misses = 1
    /\ Len(query_cache) = 1
    /\ query_cache[1].key = last.key
    /\ query_cache[1].result = last.ret

-----------------------------------------------------------------------------
(* C2 *)

\* C2: no negative caching.  When the wrapped function raises on a miss, the
\* exception reaches the caller and the store holds no entry for the key
\* after the call; the next call, if it is the same call, invokes the wrapped
\* function again.
C2_NoNegativeCaching ==
    [][IsCallStep
       => (/\ Failed(last') => (last'.ret = Raises /\ ~Has(query_cache', last'.key))
           /\ (Failed(last) /\ SameCall(last, last'))
                  => (last'.outcome = "miss" /\ Invoked(last')))]_vars

\* a second call found no entry after the first one had failed
C2_Witness ==
    /\ TotalCalls = 2
    /\ ncalls[Advanced] = 2
    /\ cache_stats[Advanced].misses = 2
    /\ cache_stats[Advanced].expired = 0
    /\ last.outcome = "miss"
    /\ ~last.raised
    /\ Len(query_cache) = 1
    /\ query_cache[1].key = last.key

-----------------------------------------------------------------------------
(* C8 *)

-----------------------------------------------------------------------------
(* C9 *)

\* C9: inclusive TTL boundary.  A call for a key in the store whose entry's
\* age equals max_age_seconds is a hit: it returns the cached result, does
\* not invoke the wrapped function and leaves the store as it is.  A call at
\* any greater age is not a hit.
C9_InclusiveBoundary ==
    [][(/\ IsCallStep
        /\ last'.outcome # "bypass"
        /\ Has(query_cache, last'.key))
       => LET cached_data == Get(query_cache, last'.key)
              age == now - cached_data.timestamp
          IN  /\ age = MaxAgeOf(last') =>
                    /\ last'.outcome = "hit"
                    /\ ~Invoked(last')
                    /\ last'.ret = cached_data.result
                    /\ query_cache' = query_cache
              /\ age > MaxAgeOf(last') =>
                    /\ last'.outcome = "expired"
                    /\ Invoked(last')]_vars

\* a hit on an entry exactly max_age_seconds old, for a maximum age above 0
C9_Witness ==
    /\ last.outcome = "hit"
    /\ MaxAgeOf(last) > 0
    /\ Has(query_cache, last.key)
    /\ now - Get(query_cache, last.key).timestamp = MaxAgeOf(last)

-----------------------------------------------------------------------------
(* C10 *)

-----------------------------------------------------------------------------
(* C6 *)

\* C6: parameter sensitivity.  With include_params enabled, when a call of
\* the advanced wrapper has cached its result and the next call passes the
\* same query text, in the same way, with different parameters, the second
\* call uses a different cache key and is not a hit: it invokes the wrapped
\* function.
C6_ParameterSensitivity ==
    [][(/\ IsCallStep
        /\ last.w = Advanced
        /\ cfg[Advanced].include_params
        /\ Cached(last)
        /\ SameWay(last, last')
        /\ CallerQuery(last') = CallerQuery(last)
        /\ Truthy(CallerParams(last))
        /\ Truthy(CallerParams(last'))
        /\ CallerParams(last') # CallerParams(last))
       => (/\ last'.key # last.key
           /\ last'.outcome # "hit"
           /\ Invoked(last'))]_vars

-----------------------------------------------------------------------------
(* C7 *)

\* text with the character ch put in front of position i
InsertAt(text, i, ch) == SubSeq(text, 1, i - 1) \o <<ch>> \o SubSeq(text, i, Len(text))

\* longer is shorter with one more whitespace character at the start, at the
\* end, or next to a whitespace character
MoreWhitespace(shorter, longer) ==
    \E i \in 1..(Len(shorter) + 1), ch \in Whitespace :
        /\ longer = InsertAt(shorter, i, ch)
        /\ \/ i = 1
           \/ i = Len(shorter) + 1
           \/ shorter[i - 1] \in Whitespace
           \/ shorter[i] \in Whitespace

\* one whitespace character is another whitespace character in the other text
OtherWhitespace(q1, q2) ==
    /\ Len(q1) = Len(q2)
    /\ \E i \in 1..Len(q1) :
          /\ q1[i] \in Whitespace
          /\ q2[i] \in Whitespace
          /\ q1[i] # q2[i]
          /\ \A j \in 1..Len(q1) : j # i => q1[j] = q2[j]

\* the two texts differ only in leading, trailing or repeated whitespace
DifferOnlyInWhitespace(q1, q2) ==
    \/ MoreWhitespace(q1, q2)
    \/ MoreWhitespace(q2, q1)
    \/ OtherWhitespace(q1, q2)

\* the wrapper of the call ignores whitespace: cache_query_advanced always,
\* cache_query when ignore_whitespace is true
IgnoresWhitespace(l) == l.w = Advanced \/ cfg[l.w].ignore_whitespace

\* C7: whitespace-insensitive keys.  When a call has cached its result and
\* the next call of the same function passes, in the same way and with the
\* same parameters, a non-empty query that differs from the first one only in
\* leading, trailing or repeated whitespace (newlines included), the second
\* call has the same cache key and is served from the entry the first call
\* stored; in cache_query when ignore_whitespace is true, in
\* cache_query_advanced always.
C7_WhitespaceInsensitiveKeys ==
    [][(/\ IsCallStep
        /\ Cached(last)
        /\ SameWay(last, last')
        /\ IgnoresWhitespace(last)
        /\ CallerParams(last') = CallerParams(last)
        /\ Truthy(CallerQuery(last'))
        /\ DifferOnlyInWhitespace(CallerQuery(last).s, CallerQuery(last').s))
       => (/\ last'.key = last.key
           /\ last'.outcome = "hit"
           /\ last'.ret = last.ret)]_vars

\* a query on two lines was served from the entry stored for the query on one
C7_Witness ==
    /\ hist = <<QAB, QABLine>>
    /\ last.outcome = "hit"
    /\ Len(query_cache) = 1
    /\ query_cache[1].key = last.key
    /\ query_cache[1].query = QAB

-----------------------------------------------------------------------------
(* C3, C4, C5: in SpecCapacity one decorated function is the only user of  *)
(* the store, and both have the same max_size                              *)

MaxSize == cfg[Advanced].max_size

\* the queries q1 .. qn, each called once, in this order
FirstQueries(n) == [i \in 1..n |-> CapText(i)]

\* the queries that have an entry in the store
StoredQueries == {query_cache[i].query : i \in 1..Len(query_cache)}

\* max_size / 4 rounded up
CeilQuarter(n) == (n + 3) \div 4

\* C3: capacity invariant.  For every max_size N >= 1, after every call of
\* the one decorated function that uses the store, the store holds at most N
\* entries.
C3_CapacityInvariant == Len(query_cache) <= MaxSize

\* C4: eviction set.  For every N >= 1, when max_size + 1 distinct queries
\* were cached one after another in an empty store, the last insertion has
\* evicted exactly the ceil(N/4) oldest entries: the store holds the queries
\* after the first ceil(N/4), and no other.
C4_EvictsCeilQuarter ==
    hist = FirstQueries(MaxSize + 1)
        => StoredQueries = {CapText(i) : i \in (CeilQuarter(MaxSize) + 1)..(MaxSize + 1)}

\* C5: the scenario max_size = 4, max age 300.  After the advanced wrapper
\* has cached q1 .. q5 in this order the store holds exactly 4 entries, q1 is
\* gone and q2 .. q5 are present; a following call for q1 is a miss that
\* increments the miss counter (to 6), invokes the wrapped function and is no
\* hit and no expiry.
C5_FiveIntoFour ==
    (/\ MaxSize = 4
     /\ cfg[Advanced].max_age_seconds = DefaultMaxAge
     /\ ncalls[Simple] = 0)
    => /\ hist = FirstQueries(5) =>
             /\ Len(query_cache) = 4
             /\ cache_stats[Advanced].size = 4
             /\ StoredQueries = {CapText(i) : i \in 2..5}
       /\ hist = Append(FirstQueries(5), CapText(1)) =>
             /\ last.outcome = "miss"
             /\ Invoked(last)
             /\ cache_stats[Advanced].misses = 6
             /\ cache_stats[Advanced].hits = 0
             /\ cache_stats[Advanced].expired = 0

\* q1 .. q5 were cached with max_size = 4 and q1 was then asked for again
C5_Witness ==
    /\ MaxSize = 4
    /\ ncalls[Advanced] = 6
    /\ hist = Append(FirstQueries(5), CapText(1))
    /\ last.outcome = "miss"
    /\ CapText(1) \in StoredQueries
    /\ CapText(2) \notin StoredQueries

-----------------------------------------------------------------------------
(* C11 *)

\* C11: statistics snapshot.  Whatever calls and clears were made, the size
\* that get_cache_stats() of the advanced wrapper reports equals the number of
\* entries that are in the store.
C11_SizeIsStoreSize == GetCacheStats(Advanced).size = Len(query_cache)

-----------------------------------------------------------------------------
(* C12 *)

\* C12: clear.  After clear_cache() the store has no entries and hits,
\* misses, expired and size are all zero; the next call that goes through
\* the cache, whatever its query, is a miss that invokes the wrapped
\* function.
C12_ClearEmptiesAndResets ==
    [][/\ last'.outcome = "clear" =>
             /\ query_cache' = <<>>
             /\ GetCacheStats(Advanced)' = ZeroStats
       /\ (IsCallStep /\ last.outcome = "clear" /\ last'.outcome # "bypass") =>
             /\ last'.outcome = "miss"
             /\ Invoked(last')]_vars

\* two calls of the advanced wrapper and a clear between them: the second
\* call is the only miss that is counted
C12_Witness ==
    /\ ncalls[Advanced] = 2
    /\ ncalls[Simple] = 0
    /\ last.outcome = "miss"
    /\ ~last.raised
    /\ GetCacheStats(Advanced) = [hits |-> 0, misses |-> 1, expired |-> 0, size |-> 1]
    /\ Len(query_cache) = 1

-----------------------------------------------------------------------------
(* C18: in SpecHits *)

-----------------------------------------------------------------------------
(* C19 *)

\* C19: insertion time is the time of insertion.  The entry stored after a
\* miss carries the clock value at which it is inserted, after the wrapped
\* function has returned: its age is 0 when the call returns.
C19_StampedAtInsertion ==
    [][(IsCallStep /\ Cached(last'))
       => /\ Has(query_cache', last'.key)
          /\ now' - Get(query_cache', last'.key).timestamp = 0]_vars

-----------------------------------------------------------------------------
(* C15, C17: in SpecParams *)

\* the call went through the key derivation and got a cache key
Keyed(l) == l.outcome \in {"hit", "miss", "expired"}

\* C15: key derivation distinguishes text from parameters.  With
\* include_params enabled, two calls of the advanced wrapper have the same
\* cache key only if their normalized query texts are equal and their
\* parameters are equal; a call with parameters and a call without never
\* share a key.
C15_KeysDistinguishTextAndParams ==
    [][(/\ IsCallStep
        /\ cfg[Advanced].include_params
        /\ last.w = Advanced /\ last'.w = Advanced
        /\ Keyed(last) /\ Keyed(last')
        /\ last'.key = last.key)
       => (/\ Normalize(CallerQuery(last').s) = Normalize(CallerQuery(last).s)
           /\ CallerParams(last') = CallerParams(last))]_vars

\* C17: unserializable parameters.  With include_params enabled, a call of
\* the advanced wrapper whose parameters cannot be serialized fails with an
\* error at key derivation: the wrapped function is not invoked and the
\* store and the counters are as they were.
C17_UnserializableFails ==
    [][(/\ IsCallStep
        /\ last'.w = Advanced
        /\ cfg[Advanced].include_params
        /\ ~JsonSerializable(CallerParams(last')))
       => (/\ last'.outcome = "error"
           /\ last'.raised
           /\ ~Invoked(last')
           /\ query_cache' = query_cache
           /\ cache_stats' = cache_stats)]_vars

-----------------------------------------------------------------------------
(* C16: in SpecConfig *)

\* the decorator of w was created with a negative max_size or max_age_seconds
InvalidConfig(w) == cfg[w].max_size < 0 \/ cfg[w].max_age_seconds < 0

\* C16: invalid configuration is rejected at construction.  A decorator
\* created with a negative max_size or a negative max_age_seconds serves no
\* call, and no call of a function decorated that way changes the store.
C16_InvalidConfigRejected ==
    [][(IsCallStep /\ InvalidConfig(last'.w))
       => (/\ last'.raised
           /\ ~Invoked(last')
           /\ query_cache' = query_cache)]_vars

-----------------------------------------------------------------------------
(* C13, C14: in SpecThreads *)

\* the entries the store holds for the key
EntriesFor(key) == {i \in 1..Len(query_cache) : query_cache[i].key = key}

\* the thread's call found no entry, called the wrapped function, stored its
\* result and returned it
MissedAndStored(th) ==
    /\ th.pc = "done"
    /\ th.found = "miss"
    /\ th.invoked
    /\ th.error = "none"

\* C13: no cache-originated failure under concurrency.  However the steps of
\* the threads interleave (another thread may expire, evict or clear a key
\* between a thread's membership test and its read or delete), no call ends
\* with an error raised by an operation on the store.
C13_NoStoreErrors == \A t \in Threads : threads[t].error # "KeyError"

\* C14: stampede.  When two threads have both missed on the same key, have
\* each called the wrapped function and stored the result, the store holds a
\* single entry for that key.
C14_StampedeKeepsOneEntry ==
    \A t1, t2 \in Threads :
        (/\ t1 # t2
         /\ threads[t1].cache_key = threads[t2].cache_key
         /\ MissedAndStored(threads[t1])
         /\ MissedAndStored(threads[t2]))
        => Cardinality(EntriesFor(threads[t1].cache_key)) = 1

\* both threads missed on one key of the advanced wrapper and called the
\* wrapped function; no hit was counted and one entry is in the store
C14_Witness ==
    /\ MissedAndStored(threads["t1"])
    /\ MissedAndStored(threads["t2"])
    /\ threads["t1"].w = Advanced
    /\ threads["t1"].cache_key = threads["t2"].cache_key
    /\ GetCacheStats(Advanced).hits = 0
    /\ Cardinality(EntriesFor(threads["t1"].cache_key)) = 1

-----------------------------------------------------------------------------
(* C20: in SpecRate *)

\* the key of the logins made without a session from 10.0.0.1
LoginKey == RateCacheKey("auth", 0, "10.0.0.1")

-----------------------------------------------------------------------------
(* C29: in SpecKeys *)

\* what the wrapper receives as positional arguments
Received(l) == IF l.db THEN WithDbConnection(l.args) ELSE l.args

\* the call has no 'query' keyword argument and its first positional
\* argument is not a string, or its query is the empty string
WithoutQuery(l) ==
    IF "query" \in DOMAIN l.kwargs
    THEN l.kwargs["query"] = Str(QEmpty)
    ELSE \/ Len(Received(l)) = 0
         \/ ~IsStr(Received(l)[1])
         \/ Received(l)[1] = Str(QEmpty)

\* C29: bypass without a query.  A call that has no 'query' keyword argument
\* and whose first positional argument is not a string, or whose query is the
\* empty string, invokes the wrapped function (its result or its exception is
\* what the caller gets) and leaves the store and all counters unchanged.
C29_BypassWithoutQuery ==
    [][(IsCallStep /\ WithoutQuery(last'))
       => (/\ last'.outcome = "bypass"
           /\ Invoked(last')
           /\ query_cache' = query_cache
           /\ cache_stats' = cache_stats)]_vars

\* after a query was cached, a call with the empty string as its query went
\* to the wrapped function and left the entry and the counters as they were
C29_Witness ==
    /\ TotalCalls = 2
    /\ ncalls[Advanced] = 2
    /\ last.kwargs = [query |-> Str(QEmpty)]
    /\ last.outcome = "bypass"
    /\ last.ret \in Results
    /\ Len(query_cache) = 1
    /\ cache_stats[Advanced].misses = 1
    /\ cache_stats[Advanced].size = 1

-----------------------------------------------------------------------------
(* C28: in SpecShared *)

\* this step is a call of one of the three decorated functions
IsSharedCallStep == Len(hist') = Len(hist) + 1

\* C28 as stated: the store is shared by all decorated functions and keyed on
\* the query alone.  After a function f decorated with cache_query_advanced
\* has cached a result for query Q, a call with the same Q to a different
\* decorated function g within g's max age returns f's result without
\* invoking g; and clear_cache() called on one wrapper empties the store.
C28_SharedAndKeyedOnQueryAlone ==
    [][/\ (/\ IsSharedCallStep
           /\ Cached(last)
           /\ last.w \in AdvancedWrappers
           /\ last'.w # last.w
           /\ CallerQuery(last') = CallerQuery(last)
           /\ now - last.at <= MaxAgeOf(last'))
          => (/\ last'.outcome = "hit"
              /\ ~Invoked(last')
              /\ last'.ret = last.ret)
       /\ last'.outcome = "clear" => query_cache' = <<>>]_vars

\* the two calls pass the same arguments the same way
SameArguments(l1, l2) ==
    /\ l1.db = l2.db
    /\ l1.args = l2.args
    /\ DOMAIN l1.kwargs = DOMAIN l2.kwargs
    /\ \A n \in DOMAIN l1.kwargs : l1.kwargs[n] = l2.kwargs[n]

\* C28 as amended: the store is shared by all decorated functions.  After a
\* function f decorated with cache_query_advanced has cached a result for a
\* call, the same call (the same arguments, passed the same way) of a
\* different function g decorated with cache_query_advanced, with g's
\* include_params equal to f's or with no parameters passed positionally,
\* made within g's max age, returns f's result without invoking g and
\* counts a hit for g; and clear_cache() called on one wrapper empties the
\* store, whichever functions cached its entries.
C28_SharedAmongAdvanced ==
    [][/\ (/\ IsSharedCallStep
           /\ Cached(last)
           /\ last.w \in AdvancedWrappers
           /\ last'.w \in AdvancedWrappers
           /\ last'.w # last.w
           /\ SameArguments(last, last')
           /\ (cfg[last.w].include_params = cfg[last'.w].include_params
                  \/ Len(last.args) < 2)
           /\ now - last.at <= MaxAgeOf(last'))
          => (/\ last'.outcome = "hit"
              /\ ~Invoked(last')
              /\ last'.ret = last.ret
              /\ cache_stats'[last'.w].hits = cache_stats[last'.w].hits + 1
              /\ query_cache' = query_cache)
       /\ last'.outcome = "clear" => query_cache' = <<>>]_vars

\* fetch_users_with_params cached a result and the other function decorated
\* with cache_query_advanced, called with the same query, returned it
C28_Witness ==
    /\ hist = <<Advanced, AdvancedOther>>
    /\ cache_stats[Advanced].misses = 1
    /\ cache_stats[AdvancedOther].hits = 1
    /\ cache_stats[AdvancedOther].misses = 0
    /\ last.w = AdvancedOther
    /\ last.outcome = "hit"
    /\ Len(query_cache) = 1
    /\ query_cache[1].result = last.ret

-----------------------------------------------------------------------------
(* C22: in SpecRetryFair *)

\* C22: retry bound.  For every retries >= 0 a call of a function wrapped by
\* retry_on_failure invokes the function at least once and at most
\* retries + 1 times; an attempt that succeeds is the last one, the call is
\* over with it and returns its result; and the call always terminates.
C22_RetryBound ==
    /\ [](retry.retries >= 0 =>
            /\ Len(retry.invoked) <= retry.retries + 1
            /\ retry.pc = "done" => Len(retry.invoked) >= 1
            /\ \A k \in 1..Len(retry.invoked) :
                  retry.invoked[k].kind = "return" =>
                      /\ k = Len(retry.invoked)
                      /\ retry.pc = "done"
                      /\ retry.outcome = retry.invoked[k])
    /\ [](retry.retries >= 0 => <>(retry.pc = "done"))

\* with retries = MaxRetries the function failed on every attempt but the
\* last, which succeeded
C22_Witness ==
    /\ retry.pc = "done"
    /\ retry.retries = MaxRetries
    /\ Len(retry.invoked) = MaxRetries + 1
    /\ retry.outcome = Returned(MaxRetries + 1)
    /\ Len(retry.slept) = MaxRetries

-----------------------------------------------------------------------------
(* C23: in SpecRetry *)

RECURSIVE Pow(_, _)
Pow(b, n) == IF n = 0 THEN 1 ELSE b * Pow(b, n - 1)

\* every attempt made so far raised an exception that `exceptions` names
AllRetryable ==
    \A k \in 1..Len(retry.invoked) :
        /\ retry.invoked[k].kind = "raise"
        /\ IsInstance(retry.invoked[k], retry.exceptions)

\* C23: retry exhaustion.  When the call is over and every attempt raised a
\* retryable exception (retries >= 0; the delay is not negative, or all
\* retries + 1 attempts were made), the wrapper has invoked the function
\* exactly retries + 1 times, raises the exception of the last attempt, and
\* has slept exactly `retries` times, never after the final attempt; the
\* k-th sleep lasted delay * backoff_factor^(k-1).
C23_RetryExhaustion ==
    (/\ retry.pc = "done"
     /\ retry.retries >= 0
     /\ AllRetryable
     /\ (retry.delay >= 0 \/ Len(retry.invoked) = retry.retries + 1))
    => (/\ Len(retry.invoked) = retry.retries + 1
        /\ retry.outcome = retry.invoked[retry.retries + 1]
        /\ Len(retry.slept) = retry.retries
        /\ \A k \in 1..Len(retry.slept) :
              retry.slept[k] = retry.delay * Pow(retry.backoff_factor, k - 1))

\* retries = MaxRetries with doubling delays: every attempt raised
\* OperationalError, and the last one's exception reached the caller
C23_Witness ==
    /\ retry.pc = "done"
    /\ retry.retries = MaxRetries
    /\ retry.delay = 1
    /\ retry.backoff_factor = 2
    /\ AllRetryable
    /\ Len(retry.invoked) = MaxRetries + 1
    /\ retry.outcome = Raised("OperationalError", MaxRetries + 1)
    /\ Len(retry.slept) = MaxRetries
    /\ retry.slept[MaxRetries] = Pow(2, MaxRetries - 1)

-----------------------------------------------------------------------------
(* C24: in SpecRetry *)

\* the k-th attempt raised an exception that `exceptions` does not name
NonRetryable(k) ==
    /\ retry.invoked[k].kind = "raise"
    /\ ~IsInstance(retry.invoked[k], retry.exceptions)

\* C24: non-retryable exceptions fail immediately.  When an attempt raises an
\* exception whose type is not in `exceptions`, it is the last attempt, the
\* call is over, the caller gets that exception, and the wrapper has slept
\* only between the attempts before it.
C24_NonRetryableFailsAtOnce ==
    \A k \in 1..Len(retry.invoked) :
        NonRetryable(k) =>
            /\ k = Len(retry.invoked)
            /\ retry.pc = "done"
            /\ retry.outcome = retry.invoked[k]
            /\ Len(retry.slept) = k - 1

\* retrying on OperationalError only: the first attempt raised one and was
\* retried, the second raised ValueError, which reached the caller
C24_Witness ==
    /\ retry.pc = "done"
    /\ retry.exceptions = {"OperationalError"}
    /\ retry.retries = MaxRetries
    /\ retry.invoked = <<Raised("OperationalError", 1), Raised("ValueError", 2)>>
    /\ retry.outcome = Raised("ValueError", 2)
    /\ Len(retry.slept) = 1

-----------------------------------------------------------------------------
(* C25, C26, C27: in SpecDb *)

\* the runs of `by` in which a connection was opened
RunsOf(by) == {i \in 1..Len(runs) : runs[i].by \in by /\ Count(runs[i].ops, "connect") = 1}

\* the wrapped function, or the block, raised
BodyRaised(r) == r.func # "return"

\* C25: transaction outcome.  Each call of a function wrapped by
\* transactional ends with exactly one of commit or rollback on the
\* connection: commit when the function returns normally, rollback when it
\* raises, never both in one call; after a rollback the function's
\* exception is what the caller gets.
C25_ExactlyOneOfCommitOrRollback ==
    \A i \in RunsOf({"update_user_email"}) :
        LET r == runs[i]
        IN  /\ Count(r.ops, "commit") + Count(r.ops, "rollback") = 1
            /\ Count(r.ops, "commit") = 1 <=> ~BodyRaised(r)
            /\ BodyRaised(r) => r.exc = Exc(r.func, "func")

\* C26: connection lifecycle of with_db_connection.  Every call that opens a
\* connection closes it exactly once, whether the wrapped function returns
\* or raises; the close comes after any commit or rollback, those of an
\* inner transactional wrapper included; and when the wrapped function
\* raises, the caller gets an exception: the function's own one when the
\* function is wrapped by with_db_connection directly.
C26_ClosedOnceAfterTheTransaction ==
    \A i \in RunsOf({"get_user_by_id", "update_user_email"}) :
        LET r == runs[i]
        IN  /\ Count(r.ops, "close") = 1
            /\ r.ops[Len(r.ops)] = "close"
            /\ BodyRaised(r) => r.exc # NoExc
            /\ (BodyRaised(r) /\ r.by = "get_user_by_id") => r.exc = Exc(r.func, "func")

\* C27: DatabaseConnection exit.  When the with-block is left, the context
\* manager rolls back if the block raised and commits otherwise, and in
\* every case, also when the commit or the rollback itself fails, the
\* connection is closed when __exit__ returns and the block's exception
\* goes on to the caller, never suppressed.
C27_ExitClosesAndPropagates ==
    \A i \in RunsOf({"DatabaseConnection", "DatabaseTransaction"}) :
        LET r == runs[i]
        IN  /\ IF BodyRaised(r)
               THEN Count(r.ops, "rollback") >= 1 /\ Count(r.ops, "commit") = 0
               ELSE Count(r.ops, "commit") >= 1 /\ Count(r.ops, "rollback") = 0
            /\ r.ops[Len(r.ops)] = "close"
            /\ r.exc = IF BodyRaised(r) THEN Exc(r.func, "func") ELSE NoExc

\* this step is a save of a Message object
IsSaveStep == Len(orm'.saved) = Len(orm.saved) + 1

\* the save this step makes
ThisSave == orm'.saved[Len(orm'.saved)]

\* the object this step saves, as it is when save() is called
SavedObject == orm.instances[ThisSave.instance]

ContentChanges(pk) ==
    Cardinality({i \in 1..Len(orm.saved) : orm.saved[i].pk = pk /\ orm.saved[i].changed})

\* the MessageHistory rows of the message pk
HistoryRows(pk) ==
    Cardinality({i \in 1..Len(orm.history) : orm.history[i].message = pk})

\* C30: message edit tracking.  After any sequence of saves of one Message,
\* through any in-memory copies of it, edit_count equals the number of saves
\* that changed its content, which equals the number of MessageHistory rows
\* recorded for it, and edited is true exactly when edit_count > 0; a save
\* that does not change the content changes none of edited, edit_count or
\* the history.
C30_EditTracking ==
    /\ [](\A pk \in 1..Len(orm.messages) :
             /\ orm.messages[pk].edit_count = ContentChanges(pk)
             /\ ContentChanges(pk) = HistoryRows(pk)
             /\ orm.messages[pk].edited <=> orm.messages[pk].edit_count > 0)
    /\ [][(IsSaveStep /\ ~ThisSave.created /\ ~ThisSave.changed) =>
             /\ orm'.messages[ThisSave.pk].edited = orm.messages[ThisSave.pk].edited
             /\ orm'.messages[ThisSave.pk].edit_count = orm.messages[ThisSave.pk].edit_count
             /\ orm'.history = orm.history]_vars

=============================================================================
